---- MODULE Spec2Model ----
(***************************************************************************)
(* Neural Network Protocol (NNP) of benwah/Benny: the wire codec           *)
(* (src/src/distributed_network.rs, NetworkMessage / MessagePayload) and   *)
(* the plain node's connection handling (DistributedNetwork).              *)
(*                                                                         *)
(* Representation of the machine integers:                                 *)
(*   u8, u16   a natural number                                            *)
(*   u32, f32  a pair <<hi, lo>> of 16-bit halves (an f32 is its bit       *)
(*             pattern, which is what to_bits / from_bits exchange)        *)
(*   u64       four 16-bit words <<w3, w2, w1, w0>>, most significant first*)
(*   usize     a natural number (64-bit target: no length computed here    *)
(*             overflows)                                                  *)
(*   Uuid      the 16 bytes that Uuid::as_bytes returns                    *)
(*   String    its UTF-8 bytes                                             *)
(***************************************************************************)
EXTENDS Integers, Sequences, FiniteSets, TLC

VARIABLES
    \* ---- codec harness (SpecCodec): one buffer through to_bytes / from_bytes
    c_phase,    \* "start" | "chosen" | "encoded" | "decoded"
    c_msg,      \* the NetworkMessage handed to to_bytes
    c_buf,      \* the byte buffer handed to from_bytes
    c_how,      \* how c_buf was made: "encoded" | "flipped" | "forged"
    c_res,      \* the result of from_bytes
    \* ---- plain nodes (Spec): DistributedNetwork and its tasks
    node_id,            \* [Node -> Uuid]: DistributedNetwork.id
    listening,          \* [Node -> BOOLEAN]: start_server has bound the listener
    connections,        \* [Node -> [Uuid -> NetworkConnection]]: the registry; every
                        \* access holds its Mutex, so a critical section is one step
    sequence_counter,   \* [Node -> u64]
    seq_lock,           \* [Node -> holder]: the sequence counter's Mutex
    queue,              \* [Node -> Seq(NetworkMessage)]: the mpsc channel
    receiver_alive,     \* [Node -> BOOLEAN]: the channel's receiver exists
    stream,             \* [Conn -> TCP connection]
    hc,                 \* [Conn -> the handle_connection task of the connection]
    call,               \* [Task -> a caller's connect_to / send_* call]
    assigned,           \* [Node -> Seq(u64)]: what next_sequence returned, in order
    \* ---- locks and suspension points (SpecLocks): the functions that take a Mutex
    lk_prog,    \* [LockTask -> the function the task runs, as its events]
    lk_pc,      \* [LockTask -> index of the event the task stands at]
    lk_holder,  \* [Lock -> holder]: who holds each Mutex
    \* ---- secure node (SpecSecure): one SecureDistributedNetwork and its peers
    s_now,              \* SystemTime::now() in seconds since the epoch, a u64
    s_listening,        \* start_secure_server has bound the listener
    s_connections,      \* [Uuid -> SecureConnection]: the pub registry
    s_sequence_counter, \* u64
    s_call,             \* the caller's connect_to_secure / send_secure_message call
    s_acc,              \* the task spawned for the accepted TCP connection
    s_wire,             \* application bytes the node wrote to any TLS stream
    s_ops,              \* calls, registrations and accepted connections so far
    \* ---- certificate harness (SpecCert): is_valid and has_capability on one input
    k_phase,        \* "start" | "drawn" | "applied"
    k_cert,         \* the NetworkCertificate the method is called on
    k_now,          \* what SystemTime::now() reads during the call
    k_capability,   \* the argument of has_capability
    k_fn,           \* the method applied: "is_valid" | "has_capability"
    k_res,          \* what it returned
    \* ---- the owner of a node's receiver, which hands each message to handle_message
    handled         \* [Node -> Nat]: how many messages of the queue it has taken

codec_vars == <<c_phase, c_msg, c_buf, c_how, c_res>>

node_vars == <<node_id, listening, connections, sequence_counter, seq_lock,
               queue, receiver_alive, stream, hc, call, assigned>>

lock_vars == <<lk_prog, lk_pc, lk_holder>>

secure_vars == <<s_now, s_listening, s_connections, s_sequence_counter,
                 s_call, s_acc, s_wire, s_ops>>

cert_vars == <<k_phase, k_cert, k_now, k_capability, k_fn, k_res>>

engine_vars == <<handled>>

aux_vars == <<lock_vars, secure_vars, cert_vars, engine_vars>>

vars == <<codec_vars, node_vars, aux_vars>>

(***************************************************************************)
(* Bounds of the model.                                                    *)
(***************************************************************************)
MaxVecLen == 2      \* longest float vector drawn for a payload
MaxConns == 2       \* TCP connections opened in one run
MaxTicks == 2       \* seconds the secure node's clock advances in one run
MaxSecureOps == 3   \* secure calls, registrations and accepted connections in one run
MaxOps == 2         \* calls of the caller tasks plus connections of foreign clients
MaxConnFrames == 3  \* frames a foreign client writes on the one connection of SpecConn
MaxRawFrames == 1   \* frames a foreign client writes on its connection

(***************************************************************************)
(* Protocol constants.                                                     *)
(***************************************************************************)
PROTOCOL_MAGIC == <<78, 78, 80, 0>>     \* 0x4E 0x4E 0x50 0x00
PROTOCOL_VERSION == 1
HEADER_SIZE == 22
MAX_STR_LEN == 255                      \* a string's length travels in one byte

(***************************************************************************)
(* Sequences of bytes.                                                     *)
(***************************************************************************)
Slice(s, from, to) == SubSeq(s, from + 1, to)     \* Rust's s[from..to]


RECURSIVE Pow2(_)
Pow2(n) == IF n = 0 THEN 1 ELSE 2 * Pow2(n - 1)

RECURSIVE Flatten(_)
Flatten(ss) == IF ss = <<>> THEN <<>> ELSE Head(ss) \o Flatten(Tail(ss))

(***************************************************************************)
(* byteorder::BigEndian.                                                   *)
(***************************************************************************)
write_u16(n) == <<n \div 256, n % 256>>
read_u16(b) == b[1] * 256 + b[2]

write_u32(v) == write_u16(v[1]) \o write_u16(v[2])
read_u32(b) == <<read_u16(SubSeq(b, 1, 2)), read_u16(SubSeq(b, 3, 4))>>

write_u64(v) == write_u16(v[1]) \o write_u16(v[2]) \o write_u16(v[3]) \o write_u16(v[4])
read_u64(b) == <<read_u16(SubSeq(b, 1, 2)), read_u16(SubSeq(b, 3, 4)),
                 read_u16(SubSeq(b, 5, 6)), read_u16(SubSeq(b, 7, 8))>>

\* the u64 of a natural number below 2^31
U64(n) == <<0, 0, n \div 65536, n % 65536>>

\* `n as u32` of a usize n below 2^31, and `v as usize` of a u32 below 2^31
usize_as_u32(n) == <<(n \div 65536) % 65536, n % 65536>>
u32_as_usize(v) == v[1] * 65536 + v[2]

(***************************************************************************)
(* crc32fast::Hasher: CRC-32 (IEEE 802.3), reflected, polynomial           *)
(* 0xEDB88320, initial value and final xor 0xFFFFFFFF.  A 32-bit register  *)
(* is the set of its one bits.                                             *)
(***************************************************************************)
CRC_POLY == {5, 8, 9, 15, 19, 20, 21, 23, 24, 26, 27, 29, 30, 31}

BitsOf(n, w) == {i \in 0..(w - 1) : (n \div Pow2(i)) % 2 = 1}

RECURSIVE NatOf(_)
NatOf(S) == IF S = {} THEN 0
            ELSE LET i == CHOOSE x \in S : TRUE IN Pow2(i) + NatOf(S \ {i})

Xor(A, B) == (A \ B) \cup (B \ A)

crc_shift(r) == LET s == {i - 1 : i \in r \ {0}}
                IN  IF 0 \in r THEN Xor(s, CRC_POLY) ELSE s

RECURSIVE crc_shifts(_, _)
crc_shifts(r, k) == IF k = 0 THEN r ELSE crc_shifts(crc_shift(r), k - 1)

\* the table of the byte-at-a-time algorithm: entry b is b after eight shifts
CRC_TABLE == [b \in 0..255 |-> crc_shifts(BitsOf(b, 8), 8)]

BITS8 == [b \in 0..255 |-> BitsOf(b, 8)]

\* r & 0xFF as a number
low8(r) ==
    (IF 0 \in r THEN 1 ELSE 0) + (IF 1 \in r THEN 2 ELSE 0)
    + (IF 2 \in r THEN 4 ELSE 0) + (IF 3 \in r THEN 8 ELSE 0)
    + (IF 4 \in r THEN 16 ELSE 0) + (IF 5 \in r THEN 32 ELSE 0)
    + (IF 6 \in r THEN 64 ELSE 0) + (IF 7 \in r THEN 128 ELSE 0)

\* table[(r ^ byte) & 0xFF] ^ (r >> 8)
crc_byte(r, byte) ==
    Xor(CRC_TABLE[low8(Xor(r \cap (0..7), BITS8[byte]))], {i - 8 : i \in r \ (0..7)})

\* the register after bytes[lo..hi]; the range is halved, and the left half's
\* register is computed (by the comparison) before the right half starts, to keep
\* the evaluation shallow
RECURSIVE crc_update(_, _, _, _)
crc_update(r, bytes, lo, hi) ==
    IF lo > hi THEN r
    ELSE IF lo = hi THEN crc_byte(r, bytes[lo])
    ELSE LET mid == (lo + hi) \div 2
             left == crc_update(r, bytes, lo, mid)
         IN  IF left = {} THEN crc_update({}, bytes, mid + 1, hi)
                           ELSE crc_update(left, bytes, mid + 1, hi)

crc32(bytes) ==
    LET r == (0..31) \ crc_update(0..31, bytes, 1, Len(bytes))
    IN  <<NatOf({i - 16 : i \in r \cap (16..31)}), NatOf(r \cap (0..15))>>

(***************************************************************************)
(* MessageType and its wire code.                                          *)
(***************************************************************************)
MessageType ==
    {"Handshake", "HandshakeAck", "ForwardData", "BackwardData", "HebbianData",
     "WeightSync", "Heartbeat", "Disconnect", "Error"}

\* `msg_type as u8`
MessageType_as_u8(t) ==
    CASE t = "Handshake" -> 1       [] t = "HandshakeAck" -> 2
      [] t = "ForwardData" -> 16    [] t = "BackwardData" -> 17
      [] t = "HebbianData" -> 18    [] t = "WeightSync" -> 19
      [] t = "Heartbeat" -> 32      [] t = "Disconnect" -> 33
      [] t = "Error" -> 255

\* a conversion that takes every undefined code for a Heartbeat
MessageType_from_undefined_is_heartbeat(value) ==
    CASE value = 1 -> "Handshake"       [] value = 2 -> "HandshakeAck"
      [] value = 16 -> "ForwardData"    [] value = 17 -> "BackwardData"
      [] value = 18 -> "HebbianData"    [] value = 19 -> "WeightSync"
      [] value = 33 -> "Disconnect"     [] value = 255 -> "Error"
      [] OTHER -> "Heartbeat"

\* impl From<u8> for MessageType
MessageType_from(value) ==
    CASE value = 1 -> "Handshake"       [] value = 2 -> "HandshakeAck"
      [] value = 16 -> "ForwardData"    [] value = 17 -> "BackwardData"
      [] value = 18 -> "HebbianData"    [] value = 19 -> "WeightSync"
      [] value = 32 -> "Heartbeat"      [] value = 33 -> "Disconnect"
      [] OTHER -> "Error"

(***************************************************************************)
(* Results: Ok(v), Err(e), or a panic (an index out of bounds unwinds the  *)
(* calling task).                                                          *)
(***************************************************************************)
Ok(v) == [tag |-> "Ok", val |-> v]
Err(e) == [tag |-> "Err", err |-> e]
Panic == [tag |-> "Panic"]

ProtocolError ==
    {"InvalidMagic", "UnsupportedVersion", "InvalidLength", "ChecksumMismatch",
     "InvalidPayload", "UnsupportedMessageType", "IoError"}

(***************************************************************************)
(* Uuid and String conversions.                                            *)
(***************************************************************************)
\* Uuid::as_bytes: the identifier's 16 bytes, fields in big-endian order
Uuid_as_bytes(id) == id

\* Uuid::from_bytes_le: the first three fields are read little-endian
Uuid_from_bytes_le(b) ==
    <<b[4], b[3], b[2], b[1], b[6], b[5], b[8], b[7]>> \o SubSeq(b, 9, 16)

\* String::from_utf8_lossy on one- and two-byte sequences: an ASCII byte and a
\* lead byte C2..DF with its continuation byte are kept, any other byte becomes
\* U+FFFD (EF BF BD).  The strings drawn below hold no three- or four-byte
\* sequences.
RECURSIVE from_utf8_lossy(_)
from_utf8_lossy(b) ==
    IF b = <<>> THEN <<>>
    ELSE IF b[1] < 128 THEN <<b[1]>> \o from_utf8_lossy(Tail(b))
    ELSE IF b[1] >= 194 /\ b[1] <= 223 /\ Len(b) >= 2 /\ b[2] >= 128 /\ b[2] <= 191
         THEN <<b[1], b[2]>> \o from_utf8_lossy(Tail(Tail(b)))
    ELSE <<239, 191, 189>> \o from_utf8_lossy(Tail(b))

floats_to_bytes(v) == Flatten([i \in 1..Len(v) |-> write_u32(v[i])])

\* data_len values of 4 bytes each, starting at byte offset start
floats_from_bytes_from_zero(bytes, start, data_len) ==
    [i \in 1..data_len |-> read_u32(Slice(bytes, (i - 1) * 4, (i - 1) * 4 + 4))]

floats_from_bytes(bytes, start, data_len) ==
    [i \in 1..data_len |->
        read_u32(Slice(bytes, start + (i - 1) * 4, start + (i - 1) * 4 + 4))]

u16s_to_bytes(v) == Flatten([i \in 1..Len(v) |-> write_u16(v[i])])

(***************************************************************************)
(* MessagePayload::to_bytes.                                               *)
(***************************************************************************)
MessagePayload_to_bytes(p) ==
    CASE p.kind = "Handshake" ->
            Uuid_as_bytes(p.network_id)
            \o <<Len(p.name) % 256>> \o p.name
            \o <<Len(p.layers) % 256>> \o u16s_to_bytes(p.layers)
            \o write_u32(p.capabilities)
      [] p.kind = "HandshakeAck" ->
            Uuid_as_bytes(p.network_id) \o <<IF p.accepted THEN 1 ELSE 0>>
      [] p.kind = "ForwardData" ->
            <<p.layer_id>> \o write_u32(usize_as_u32(Len(p.data)))
            \o floats_to_bytes(p.data)
      [] p.kind = "BackwardData" ->
            <<p.layer_id>> \o write_u32(usize_as_u32(Len(p.gradients)))
            \o floats_to_bytes(p.gradients)
      [] p.kind = "HebbianData" ->
            <<p.layer_id>> \o write_u32(p.learning_rate)
            \o write_u32(usize_as_u32(Len(p.correlations)))
            \o floats_to_bytes(p.correlations)
      [] p.kind = "WeightSync" ->
            <<p.layer_id>>
            \o write_u32(usize_as_u32(Len(p.weights))) \o floats_to_bytes(p.weights)
            \o write_u32(usize_as_u32(Len(p.biases))) \o floats_to_bytes(p.biases)
      [] p.kind = "Heartbeat" -> write_u64(p.timestamp)
      [] p.kind = "Disconnect" -> <<Len(p.reason) % 256>> \o p.reason
      [] p.kind = "Error" ->
            write_u16(p.code) \o <<Len(p.message) % 256>> \o p.message

(***************************************************************************)
(* NetworkMessage::to_bytes.                                               *)
(***************************************************************************)
\* a header whose payload length is written little-endian
frame_bytes_length_little_endian(type_code, sequence, payload_bytes) ==
    PROTOCOL_MAGIC
        \o <<PROTOCOL_VERSION>>
        \o <<type_code>>
        \o <<Len(payload_bytes) % 256, (Len(payload_bytes) \div 256) % 256, 0, 0>>
        \o write_u64(sequence)
        \o write_u32(crc32(payload_bytes))
        \o payload_bytes

\* the header for a type code, a sequence number and the payload's bytes, then
\* the payload
frame_bytes(type_code, sequence, payload_bytes) ==
    LET payload_len == usize_as_u32(Len(payload_bytes))
        checksum == crc32(payload_bytes)
    IN  PROTOCOL_MAGIC
        \o <<PROTOCOL_VERSION>>
        \o <<type_code>>
        \o write_u32(payload_len)
        \o write_u64(sequence)
        \o write_u32(checksum)
        \o payload_bytes

NetworkMessage_to_bytes(m) ==
    frame_bytes(MessageType_as_u8(m.msg_type), m.sequence,
                MessagePayload_to_bytes(m.payload))

(***************************************************************************)
(* MessagePayload::from_bytes.  Offsets are Rust's (from 0); bytes[i] with *)
(* i >= bytes.len() panics.                                                *)
(***************************************************************************)
At(bytes, i) == bytes[i + 1]

\* the Handshake arm's loop over the layer sizes: Ok(<<layers, offset>>) or Err
RECURSIVE read_layers(_, _, _, _)
read_layers(bytes, offset, count, layers) ==
    IF count = 0 THEN Ok(<<layers, offset>>)
    ELSE IF Len(bytes) < offset + 2 THEN Err("InvalidPayload")
    ELSE read_layers(bytes, offset + 2, count - 1,
                     Append(layers, read_u16(Slice(bytes, offset, offset + 2))))

from_bytes_Handshake(bytes) ==
    IF Len(bytes) < 16 THEN Err("InvalidPayload")
    ELSE
    LET network_id == Uuid_from_bytes_le(Slice(bytes, 0, 16)) IN
    IF 16 >= Len(bytes) THEN Panic                      \* bytes[offset], offset = 16
    ELSE
    LET name_len == At(bytes, 16) IN
    IF Len(bytes) < 17 + name_len THEN Err("InvalidPayload")
    ELSE
    LET name == from_utf8_lossy(Slice(bytes, 17, 17 + name_len))
        offset == 17 + name_len
    IN
    IF offset >= Len(bytes) THEN Panic                  \* bytes[offset]
    ELSE
    LET layers_count == At(bytes, offset)
        read == read_layers(bytes, offset + 1, layers_count, <<>>)
    IN
    IF read.tag = "Err" THEN read
    ELSE
    LET layers == read.val[1]
        end == read.val[2]
    IN
    IF Len(bytes) < end + 4 THEN Err("InvalidPayload")
    ELSE Ok([kind |-> "Handshake", network_id |-> network_id, name |-> name,
             layers |-> layers,
             capabilities |-> read_u32(Slice(bytes, end, end + 4))])

\* `bytes.len() != base + data_len * 4` for a u32 data_len, in 64-bit usize
\* arithmetic (no overflow); stated on data_len's 16-bit halves
vector_len_differs(bytes, base, data_len) ==
    \/ Len(bytes) < base
    \/ (Len(bytes) - base) % 4 # 0
    \/ usize_as_u32((Len(bytes) - base) \div 4) # data_len

\* the ForwardData and BackwardData arms, which differ in the field's name
from_bytes_vector(bytes, kind) ==
    IF Len(bytes) < 5 THEN Err("InvalidPayload")
    ELSE
    LET layer_id == At(bytes, 0)
        data_len == read_u32(Slice(bytes, 1, 5))
    IN
    IF vector_len_differs(bytes, 5, data_len) THEN Err("InvalidPayload")
    ELSE
    LET data == floats_from_bytes(bytes, 5, u32_as_usize(data_len)) IN
    IF kind = "ForwardData"
    THEN Ok([kind |-> "ForwardData", layer_id |-> layer_id, data |-> data])
    ELSE Ok([kind |-> "BackwardData", layer_id |-> layer_id, gradients |-> data])

from_bytes_HandshakeAck(bytes) ==
    IF Len(bytes) # 17 THEN Err("InvalidPayload")
    ELSE Ok([kind |-> "HandshakeAck",
             network_id |-> Uuid_from_bytes_le(Slice(bytes, 0, 16)),
             accepted |-> (At(bytes, 16) # 0)])

from_bytes_Heartbeat(bytes) ==
    IF Len(bytes) # 8 THEN Err("InvalidPayload")
    ELSE Ok([kind |-> "Heartbeat", timestamp |-> read_u64(Slice(bytes, 0, 8))])

from_bytes_HebbianData(bytes) ==
    IF Len(bytes) < 9 THEN Err("InvalidPayload")
    ELSE
    LET layer_id == At(bytes, 0)
        learning_rate == read_u32(Slice(bytes, 1, 5))
        data_len == read_u32(Slice(bytes, 5, 9))
    IN
    IF vector_len_differs(bytes, 9, data_len) THEN Err("InvalidPayload")
    ELSE Ok([kind |-> "HebbianData", layer_id |-> layer_id,
             correlations |-> floats_from_bytes(bytes, 9, u32_as_usize(data_len)),
             learning_rate |-> learning_rate])

MessagePayload_from_bytes(msg_type, bytes) ==
    CASE msg_type = "Handshake" -> from_bytes_Handshake(bytes)
      [] msg_type = "ForwardData" -> from_bytes_vector(bytes, "ForwardData")
      [] msg_type = "HandshakeAck" -> from_bytes_HandshakeAck(bytes)
      [] msg_type = "Heartbeat" -> from_bytes_Heartbeat(bytes)
      [] msg_type = "BackwardData" -> from_bytes_vector(bytes, "BackwardData")
      [] msg_type = "HebbianData" -> from_bytes_HebbianData(bytes)
      [] OTHER -> Err("UnsupportedMessageType")

(***************************************************************************)
(* NetworkMessage::from_bytes.                                             *)
(***************************************************************************)
\* a from_bytes without the checksum comparison
checksum_unchecked(payload_bytes, expected_checksum) == FALSE

\* `actual_checksum != expected_checksum`
checksum_differs(payload_bytes, expected_checksum) ==
    crc32(payload_bytes) # expected_checksum

\* `bytes[0..4] != PROTOCOL_MAGIC`
magic_unchecked(bytes) == FALSE

magic_differs(bytes) == Slice(bytes, 0, 4) # PROTOCOL_MAGIC

\* `bytes[4] != PROTOCOL_VERSION`
version_unchecked(bytes) == FALSE

version_differs(bytes) == At(bytes, 4) # PROTOCOL_VERSION

\* `bytes.len() != HEADER_SIZE + payload_len`, on payload_len's 16-bit halves
length_differs_when_short(bytes, payload_len) ==
    Len(bytes) - HEADER_SIZE < u32_as_usize(<<payload_len[1] % 16384, payload_len[2]>>)

length_differs(bytes, payload_len) ==
    usize_as_u32(Len(bytes) - HEADER_SIZE) # payload_len

\* a from_bytes that compares the lengths before it looks at the version
from_bytes_length_before_version(bytes) ==
    IF Len(bytes) < HEADER_SIZE THEN Err("InvalidLength")
    ELSE IF magic_differs(bytes) THEN Err("InvalidMagic")
    ELSE IF length_differs(bytes, read_u32(Slice(bytes, 6, 10))) THEN Err("InvalidLength")
    ELSE IF version_differs(bytes) THEN Err("UnsupportedVersion")
    ELSE
    LET payload_bytes == Slice(bytes, HEADER_SIZE, Len(bytes))
        payload == MessagePayload_from_bytes(MessageType_from(At(bytes, 5)), payload_bytes)
    IN
    IF checksum_differs(payload_bytes, read_u32(Slice(bytes, 18, 22)))
    THEN Err("ChecksumMismatch")
    ELSE IF payload.tag # "Ok" THEN payload
    ELSE Ok([msg_type |-> MessageType_from(At(bytes, 5)),
             sequence |-> read_u64(Slice(bytes, 10, 18)), payload |-> payload.val])

NetworkMessage_from_bytes(bytes) ==
    IF Len(bytes) < HEADER_SIZE THEN Err("InvalidLength")
    ELSE IF magic_differs(bytes) THEN Err("InvalidMagic")
    ELSE IF version_differs(bytes) THEN Err("UnsupportedVersion")
    ELSE
    LET msg_type == MessageType_from(At(bytes, 5))
        payload_len == read_u32(Slice(bytes, 6, 10))
        sequence == read_u64(Slice(bytes, 10, 18))
        expected_checksum == read_u32(Slice(bytes, 18, 22))
    IN
    IF length_differs(bytes, payload_len) THEN Err("InvalidLength")
    ELSE
    LET payload_bytes == Slice(bytes, HEADER_SIZE, Len(bytes)) IN
    IF checksum_differs(payload_bytes, expected_checksum) THEN Err("ChecksumMismatch")
    ELSE
    LET payload == MessagePayload_from_bytes(msg_type, payload_bytes) IN
    IF payload.tag # "Ok" THEN payload          \* `?`; a panic unwinds
    ELSE Ok([msg_type |-> msg_type, sequence |-> sequence, payload |-> payload.val])

(***************************************************************************)
(* The values drawn for the fields of a message.                           *)
(***************************************************************************)
\* Uuid::new_v4() (version nibble 4, variant bits 10): two identifiers whose
\* first three fields are not palindromes and one whose fields are
UUID_A == <<1, 2, 3, 4, 5, 6, 71, 8, 136, 10, 11, 12, 13, 14, 15, 16>>
UUID_B == <<33, 34, 35, 36, 37, 38, 72, 40, 137, 42, 43, 44, 45, 46, 47, 48>>
UUID_PAL == <<9, 9, 9, 9, 9, 9, 68, 68, 136, 9, 9, 9, 9, 9, 9, 9>>
Uuids == {UUID_A, UUID_B, UUID_PAL}

\* 0.5, 0.8, -0.0, NaN as f32 bit patterns 3F000000, 3F4CCCCD, 80000000, 7FC00000
F32_LIST == <<(<<16128, 0>>), (<<16204, 52429>>), (<<32768, 0>>), (<<32704, 0>>)>>
F32_RATE == <<15820, 52429>>            \* 0.1 as f32, 3DCCCCCD

FloatVector(n) == [i \in 1..n |-> F32_LIST[((i - 1) % Len(F32_LIST)) + 1]]
FloatVectors == {FloatVector(n) : n \in 0..MaxVecLen}

STR_EMPTY == <<>>
STR_ALPHA == <<65, 108, 112, 104, 97>>              \* "Alpha"
STR_ACCENT == <<195, 169>>                          \* "é", a two-byte sequence
STR_MAX == [i \in 1..MAX_STR_LEN |-> 97]            \* 255 times "a"

CAPS_NODE == <<0, 119>>     \* the capabilities DistributedNetwork::new sets, 0x77
CAPS_ALL == <<65535, 65535>>

NoMsg == [msg_type |-> "none"]
NoRes == [tag |-> "none"]

Message(t, sequence, payload) ==
    [msg_type |-> t, sequence |-> sequence, payload |-> payload]

HandshakePayloads ==
    {[kind |-> "Handshake", network_id |-> id, name |-> n, layers |-> l,
      capabilities |-> c] :
        id \in {UUID_A, UUID_PAL}, n \in {STR_EMPTY, STR_ALPHA},
        l \in {<<>>, <<3, 6, 2>>}, c \in {CAPS_NODE}}
    \cup {[kind |-> "Handshake", network_id |-> UUID_B, name |-> STR_ACCENT,
           layers |-> <<65535>>, capabilities |-> CAPS_ALL]}

HandshakeAckPayloads ==
    {[kind |-> "HandshakeAck", network_id |-> id, accepted |-> a] :
        id \in {UUID_B, UUID_PAL}, a \in BOOLEAN}

ForwardDataPayloads ==
    {[kind |-> "ForwardData", layer_id |-> l, data |-> v] :
        l \in {0, 255}, v \in FloatVectors}

BackwardDataPayloads ==
    {[kind |-> "BackwardData", layer_id |-> l, gradients |-> v] :
        l \in {1}, v \in FloatVectors}

HebbianDataPayloads ==
    {[kind |-> "HebbianData", layer_id |-> l, correlations |-> v,
      learning_rate |-> F32_RATE] : l \in {1}, v \in FloatVectors}

WeightSyncPayloads ==
    {[kind |-> "WeightSync", layer_id |-> 0, weights |-> w, biases |-> b] :
        w \in FloatVectors, b \in {FloatVector(0), FloatVector(1)}}

HeartbeatPayloads ==
    {[kind |-> "Heartbeat", timestamp |-> t] : t \in {U64(0), U64(1700000000)}}

DisconnectPayloads ==
    {[kind |-> "Disconnect", reason |-> r] : r \in {STR_EMPTY, STR_ALPHA, STR_MAX}}

ErrorPayloads ==
    {[kind |-> "Error", code |-> c, message |-> m] :
        c \in {0, 65535}, m \in {STR_EMPTY, STR_ALPHA}}

Payloads ==
    HandshakePayloads \cup HandshakeAckPayloads \cup ForwardDataPayloads
    \cup BackwardDataPayloads \cup HebbianDataPayloads \cup WeightSyncPayloads
    \cup HeartbeatPayloads \cup DisconnectPayloads \cup ErrorPayloads

U64_MAX == <<65535, 65535, 65535, 65535>>

\* the messages the node's constructors build: the type tag is the payload's
Messages ==
    {Message(p.kind, U64(1), p) : p \in Payloads}
    \cup {Message(p.kind, U64_MAX, p) : p \in ForwardDataPayloads \cup HeartbeatPayloads}

\* every type code with a name, and two without
TypeCodes == {MessageType_as_u8(t) : t \in MessageType} \cup {0, 99}

(***************************************************************************)
(* The plain node (DistributedNetwork), its tasks and the TCP connections. *)
(*                                                                         *)
(* Two nodes A and B; B's owner starts its server.  Two caller tasks use   *)
(* clones of node A (connect_to, send_forward_data, send_hebbian_data).  A *)
(* connection's client is a caller task or a foreign peer ("raw") that     *)
(* writes frames of its own choice; its server is a node's                 *)
(* handle_connection task or a foreign peer that answers as it likes.      *)
(* A step of a task runs from one suspension point (an await, the lock of  *)
(* the sequence counter) to the next; a critical section of the registry's *)
(* Mutex, which contains no await, is part of one step.                    *)
(***************************************************************************)
Node == {"A", "B"}
Task == {"t1", "t2"}
task_node(t) == "A"
Server == {"B"}             \* the nodes whose owner calls start_server
Conn == 1..MaxConns

RAW == "raw"                \* a foreign peer, as a connection's client or server
NONE == "none"

\* holders of the sequence counter's Mutex: nobody, or caller task t
Free == "free"
CallerHolder(t) == t

CAPS_UNKNOWN == <<0, 0>>    \* `capabilities: 0`
NOW == U64(1700000000)      \* SystemTime::now() as seconds since the epoch

\* a NetworkConnection; stream is 0 for None and the connection for Some(stream)
NetworkConnection(peer_id, s) ==
    [peer_id |-> peer_id, stream |-> s, capabilities |-> CAPS_UNKNOWN,
     last_heartbeat |-> NOW, sequence_counter |-> U64(0)]

\* an insert that keeps nothing but the new entry
insert_alone(map, key, value) == [k \in {key} |-> value]

\* HashMap::insert
insert(map, key, value) ==
    [k \in (DOMAIN map) \cup {key} |-> IF k = key THEN value ELSE map[k]]

\* a counter that moves by two
u64_add2(v) == IF v[4] < 65534 THEN <<v[1], v[2], v[3], v[4] + 2>> ELSE v

\* `*counter += 1` (the counter stays far below 2^64 here)
u64_add1(v) ==
    IF v[4] < 65535 THEN <<v[1], v[2], v[3], v[4] + 1>>
    ELSE IF v[3] < 65535 THEN <<v[1], v[2], v[3] + 1, 0>>
    ELSE IF v[2] < 65535 THEN <<v[1], v[2] + 1, 0, 0>>
    ELSE <<(v[1] + 1) % 65536, 0, 0, 0>>

\* the Handshake connect_to composes for node n
handshake_of(n, sequence) ==
    Message("Handshake", sequence,
            [kind |-> "Handshake", network_id |-> node_id[n],
             name |-> STR_ALPHA, layers |-> <<3, 6, 2>>, capabilities |-> CAPS_NODE])

\* the HandshakeAck handle_connection composes
ack_of(our_network_id) ==
    Message("HandshakeAck", U64(1),
            [kind |-> "HandshakeAck", network_id |-> our_network_id, accepted |-> TRUE])

\* exchanged: the <<node, peer id>> pairs for which a handshake/ack exchange has
\* completed on the connection (node wrote or read the accepting ack);
\* advertised: the ids of the Handshake frames a foreign client wrote, in order;
\* written: how many bytes a foreign client has written; starts: the offsets in
\* that byte stream at which its frames begin, well_formed: those of them at
\* which a frame begins that from_bytes decodes; bad_frames: <<start, end>> of
\* its frames that lack the magic number and carry a payload
NoStream ==
    [client |-> NONE, server |-> NONE, c2s |-> <<>>, s2c |-> <<>>,
     client_open |-> FALSE, server_open |-> FALSE, raw_frames |-> 0,
     exchanged |-> {}, advertised |-> <<>>, written |-> 0, starts |-> {},
     well_formed |-> {}, bad_frames |-> {}]

\* decoded: the messages from_bytes returned Ok for on the connection, in order;
\* skipped: the headers passed over for their magic number; read_at: the offsets
\* in the peer's byte stream at which the task has read a header
NoHandler ==
    [pc |-> NONE, header_buf |-> <<>>, message |-> NoMsg, last |-> NONE,
     decoded |-> <<>>, skipped |-> 0, read_at |-> {}]

NoCall ==
    [op |-> NONE, pc |-> "idle", target |-> NONE, peer_id |-> <<>>, conn |-> 0,
     sequence |-> U64(0), header_buf |-> <<>>, message |-> NoMsg, found |-> FALSE,
     wrote |-> <<>>, reply |-> <<>>, result |-> NoRes, calls |-> 0]

NodeInit ==
    /\ node_id = [n \in Node |-> IF n = "A" THEN UUID_A ELSE UUID_B]
    /\ listening = [n \in Node |-> FALSE]
    /\ connections = [n \in Node |-> <<>>]
    /\ sequence_counter = [n \in Node |-> U64(0)]
    /\ seq_lock = [n \in Node |-> Free]
    /\ queue = [n \in Node |-> <<>>]
    /\ receiver_alive = [n \in Node |-> TRUE]
    /\ stream = [c \in Conn |-> NoStream]
    /\ hc = [c \in Conn |-> NoHandler]
    /\ call = [t \in Task |-> NoCall]
    /\ assigned = [n \in Node |-> <<>>]

(***************************************************************************)
(* TCP: a connection is two byte streams; a read of k bytes completes when *)
(* k bytes are there, and fails at the end of the stream when the peer has *)
(* closed with fewer than k bytes left.                                    *)
(***************************************************************************)
FreeConns == {c \in Conn : stream[c].client = NONE}

open_stream(client, server) ==
    [NoStream EXCEPT !.client = client, !.server = server,
                     !.client_open = TRUE, !.server_open = TRUE]

\* read_exact of k bytes can complete on this byte stream
can_read(bytes, k) == Len(bytes) >= k

\* read_exact of k bytes fails with UnexpectedEof
read_eof(bytes, k, writer_open) == Len(bytes) < k /\ ~writer_open

\* `BigEndian::read_u32(&header_buf[6..10]) as usize`
header_payload_len(header_buf) == u32_as_usize(read_u32(Slice(header_buf, 6, 10)))

(***************************************************************************)
(* DistributedNetwork::start_server: bind the listener, spawn the accept   *)
(* loop.                                                                   *)
(***************************************************************************)
start_server(n) ==
    /\ ~listening[n]
    /\ listening' = [listening EXCEPT ![n] = TRUE]
    /\ UNCHANGED <<codec_vars, aux_vars, node_id, connections, sequence_counter,
                   seq_lock, queue, receiver_alive, stream, hc, call, assigned>>

\* the accept loop: listener.accept() returns a stream and handle_connection is
\* spawned for it
accept(c) ==
    /\ stream[c].server \in Node
    /\ hc[c].pc = NONE
    /\ hc' = [hc EXCEPT ![c].pc = "read_header"]
    /\ UNCHANGED <<codec_vars, aux_vars, node_id, listening, connections, sequence_counter,
                   seq_lock, queue, receiver_alive, stream, call, assigned>>

(***************************************************************************)
(* DistributedNetwork::next_sequence, in the three steps of a caller:      *)
(* lock(), `*counter += 1`, read `*counter` and drop the guard.            *)
(***************************************************************************)
\* a lock() that does not wait for the holder
seq_lock_acquire_unguarded(t) ==
    /\ call[t].pc = "seq_lock"
    /\ seq_lock' = [seq_lock EXCEPT ![task_node(t)] = CallerHolder(t)]
    /\ call' = [call EXCEPT ![t].pc = "seq_inc"]

seq_lock_acquire(t) ==
    /\ call[t].pc = "seq_lock"
    /\ seq_lock[task_node(t)] = Free
    /\ seq_lock' = [seq_lock EXCEPT ![task_node(t)] = CallerHolder(t)]
    /\ call' = [call EXCEPT ![t].pc = "seq_inc"]

next_sequence_lock(t) ==
    /\ seq_lock_acquire(t)
    /\ UNCHANGED <<codec_vars, aux_vars, node_id, listening, connections, sequence_counter, queue,
                   receiver_alive, stream, hc, assigned>>

next_sequence_increment(t) ==
    /\ call[t].pc = "seq_inc"
    /\ sequence_counter' =
          [sequence_counter EXCEPT ![task_node(t)] = u64_add1(@)]
    /\ call' = [call EXCEPT ![t].pc = "seq_read"]
    /\ UNCHANGED <<codec_vars, aux_vars, node_id, listening, connections, seq_lock, queue,
                   receiver_alive, stream, hc, assigned>>

\* the value is returned, the guard dropped, and the caller composes its message
next_sequence_return(t) ==
    LET n == task_node(t)
        sequence == sequence_counter[n]
        message ==
            CASE call[t].op = "connect_to" -> handshake_of(n, sequence)
              [] call[t].op = "send_forward_data" ->
                    Message("ForwardData", sequence,
                            [kind |-> "ForwardData", layer_id |-> 0,
                             data |-> FloatVector(2)])
              [] call[t].op = "send_hebbian_data" ->
                    Message("HebbianData", sequence,
                            [kind |-> "HebbianData", layer_id |-> 1,
                             correlations |-> FloatVector(1),
                             learning_rate |-> F32_RATE])
    IN
    /\ call[t].pc = "seq_read"
    /\ seq_lock' = [seq_lock EXCEPT ![n] = Free]
    /\ assigned' = [assigned EXCEPT ![n] = Append(@, sequence)]
    /\ call' = [call EXCEPT ![t].sequence = sequence,
                            ![t].message = message,
                            ![t].pc = IF call[t].op = "connect_to"
                                      THEN "write_handshake" ELSE "send_lock"]
    /\ UNCHANGED <<codec_vars, aux_vars, node_id, listening, connections, sequence_counter, queue,
                   receiver_alive, stream, hc>>

(***************************************************************************)
(* DistributedNetwork::connect_to.                                         *)
(***************************************************************************)
raw_conns == Cardinality({c \in Conn : stream[c].client = RAW})
ops_begun == call["t1"].calls + call["t2"].calls + raw_conns
\* t1 is the task that calls first
can_call(t) ==
    /\ call[t].pc \in {"idle", "done"}
    /\ ops_begun < MaxOps
    /\ t = "t1" \/ call["t1"].calls > 0

\* a caller invokes connect_to(address, port) for another node or a foreign peer:
\* TcpStream::connect(&addr).await? fails when nobody listens there
connect_to_begin(t) ==
    /\ can_call(t)
    /\ \E target \in (Node \ {task_node(t)}) \cup {RAW} :
          LET started == [NoCall EXCEPT !.op = "connect_to", !.target = target,
                                        !.calls = call[t].calls + 1]
          IN
          IF target \in Node /\ ~listening[target]
          THEN /\ call' = [call EXCEPT ![t] =
                              [started EXCEPT !.pc = "done", !.result = Err("IoError")]]
               /\ UNCHANGED stream
          ELSE /\ FreeConns # {}
               /\ LET c == CHOOSE x \in FreeConns : \A y \in FreeConns : x <= y IN
                  /\ stream' = [stream EXCEPT ![c] = open_stream(t, target)]
                  /\ call' = [call EXCEPT ![t] =
                                 [started EXCEPT !.pc = "seq_lock", !.conn = c]]
    /\ UNCHANGED <<codec_vars, aux_vars, node_id, listening, connections, sequence_counter,
                   seq_lock, queue, receiver_alive, hc, assigned>>

\* stream.write_all(&handshake_bytes).await?  A write on a connection the peer
\* has closed may still succeed or fail.
connect_to_write(t) ==
    LET c == call[t].conn
        handshake_bytes == NetworkMessage_to_bytes(call[t].message)
    IN
    /\ call[t].op = "connect_to"
    /\ call[t].pc = "write_handshake"
    /\ \/ /\ stream' = [stream EXCEPT ![c].c2s = @ \o handshake_bytes]
          /\ call' = [call EXCEPT ![t].pc = "read_header",
                                  ![t].wrote = @ \o handshake_bytes]
       \/ /\ ~stream[c].server_open
          /\ stream' = [stream EXCEPT ![c].client_open = FALSE]
          /\ call' = [call EXCEPT ![t].pc = "done", ![t].result = Err("IoError")]
    /\ UNCHANGED <<codec_vars, aux_vars, node_id, listening, connections, sequence_counter,
                   seq_lock, queue, receiver_alive, hc, assigned>>

\* stream.read_exact(&mut header_buf).await?
connect_to_read_header(t) ==
    LET c == call[t].conn IN
    /\ call[t].op = "connect_to"
    /\ call[t].pc = "read_header"
    /\ \/ /\ can_read(stream[c].s2c, HEADER_SIZE)
          /\ stream' = [stream EXCEPT ![c].s2c = SubSeq(@, HEADER_SIZE + 1, Len(@))]
          /\ call' = [call EXCEPT ![t].pc = "read_payload",
                                  ![t].header_buf = SubSeq(stream[c].s2c, 1, HEADER_SIZE)]
       \/ /\ read_eof(stream[c].s2c, HEADER_SIZE, stream[c].server_open)
          /\ stream' = [stream EXCEPT ![c].client_open = FALSE]
          /\ call' = [call EXCEPT ![t].pc = "done", ![t].result = Err("IoError")]
    /\ UNCHANGED <<codec_vars, aux_vars, node_id, listening, connections, sequence_counter,
                   seq_lock, queue, receiver_alive, hc, assigned>>

\* what connect_to does with the one message it read: Ok(network_id) stands for
\* the branch that goes on to store the connection
connect_to_decide(full_message) ==
    LET decoded == NetworkMessage_from_bytes(full_message) IN
    IF decoded.tag = "Panic" THEN Panic
    ELSE IF decoded.tag = "Err" THEN decoded
    ELSE IF decoded.val.payload.kind = "HandshakeAck"
         THEN IF decoded.val.payload.accepted
              THEN Ok(decoded.val.payload.network_id)
              ELSE Err("InvalidPayload")
         ELSE Err("InvalidPayload")

\* stream.read_exact(&mut full_message[HEADER_SIZE..]).await?, then from_bytes and
\* the match on its result; an accepted HandshakeAck is stored under the
\* connections lock, with the stream, and Ok(network_id) returned
connect_to_read_payload(t) ==
    LET n == task_node(t)
        c == call[t].conn
        payload_len == header_payload_len(call[t].header_buf)
        full_message == call[t].header_buf \o SubSeq(stream[c].s2c, 1, payload_len)
        decision == connect_to_decide(full_message)
    IN
    /\ call[t].op = "connect_to"
    /\ call[t].pc = "read_payload"
    /\ \/ /\ can_read(stream[c].s2c, payload_len)
          /\ call' = [call EXCEPT ![t].pc = IF decision.tag = "Panic"
                                            THEN "panicked" ELSE "done",
                                  ![t].reply = full_message,
                                  ![t].result = decision]
          /\ IF decision.tag = "Ok"
             THEN /\ stream' = [stream EXCEPT
                                   ![c].s2c = SubSeq(@, payload_len + 1, Len(@)),
                                   ![c].exchanged = @ \cup {<<n, decision.val>>}]
                  /\ connections' = [connections EXCEPT ![n] =
                        insert(@, decision.val, NetworkConnection(decision.val, c))]
             ELSE \* the stream is dropped with the error (or the unwinding)
                  /\ stream' = [stream EXCEPT
                                   ![c].s2c = SubSeq(@, payload_len + 1, Len(@)),
                                   ![c].client_open = FALSE]
                  /\ UNCHANGED connections
       \/ /\ read_eof(stream[c].s2c, payload_len, stream[c].server_open)
          /\ stream' = [stream EXCEPT ![c].client_open = FALSE]
          /\ call' = [call EXCEPT ![t].pc = "done", ![t].result = Err("IoError")]
          /\ UNCHANGED connections
    /\ UNCHANGED <<codec_vars, aux_vars, node_id, listening, sequence_counter,
                   seq_lock, queue, receiver_alive, hc, assigned>>

(***************************************************************************)
(* DistributedNetwork::send_forward_data / send_hebbian_data and           *)
(* send_message_to_peer.                                                   *)
(***************************************************************************)
\* the peer ids a caller may name: the registry's keys and the other nodes' ids
PeerChoices(n) == (DOMAIN connections[n]) \cup {node_id[m] : m \in Node \ {n}}

send_begin(t) ==
    /\ can_call(t)
    /\ \E op \in {"send_forward_data", "send_hebbian_data"},
          peer_id \in PeerChoices(task_node(t)) :
          call' = [call EXCEPT ![t] =
                      [NoCall EXCEPT !.op = op, !.pc = "seq_lock",
                                     !.peer_id = peer_id, !.calls = call[t].calls + 1]]
    /\ UNCHANGED <<codec_vars, aux_vars, node_id, listening, connections, sequence_counter,
                   seq_lock, queue, receiver_alive, stream, hc, assigned>>

\* a send_message_to_peer that treats a missing entry as an error
send_result_absent_is_error(found) == IF found THEN Ok("unit") ELSE Err("InvalidPayload")

\* what send_message_to_peer returns: Ok(()) with or without an entry
send_result(found) == Ok("unit")

\* send_message_to_peer: message.to_bytes() goes to _message_bytes, which is not
\* used; under the connections lock, connections.get(&peer_id): with an entry
\* the message is only logged ("Would send"); Ok(()) is returned
send_message_to_peer(t) ==
    LET n == task_node(t)
        found == call[t].peer_id \in DOMAIN connections[n]
    IN
    /\ call[t].pc = "send_lock"
    /\ call' = [call EXCEPT ![t].pc = "done", ![t].found = found,
                            ![t].result = send_result(found)]
    /\ UNCHANGED <<codec_vars, aux_vars, node_id, listening, connections, sequence_counter,
                   seq_lock, queue, receiver_alive, stream, hc, assigned>>

(***************************************************************************)
(* DistributedNetwork::handle_connection, the task of one accepted         *)
(* connection.  hc[c].last records how the latest frame ended.             *)
(***************************************************************************)
\* where a task that has ended stands: Ok(()), Err(e), or a panic
Exited == {"done_ok", "done_err", "panicked"}

\* the task ends: its stream is dropped
handler_exit(c, pc, last) ==
    /\ hc' = [hc EXCEPT ![c].pc = pc, ![c].last = last]
    /\ stream' = [stream EXCEPT ![c].server_open = FALSE]

\* a loop that a header without the magic number ends
after_header_bad_magic_exits(header_buf) ==
    IF Slice(header_buf, 0, 4) # PROTOCOL_MAGIC THEN "done_err" ELSE "read_payload"

\* where the loop goes after a header was read: `continue` on a header without
\* the magic number
after_header(header_buf) ==
    IF Slice(header_buf, 0, 4) # PROTOCOL_MAGIC THEN "read_header" ELSE "read_payload"

\* a loop that returns an error at the end of the stream
read_failure_is_error(kind) == "done_err"

\* how the task ends when the header's read_exact fails: `break` and Ok(()) on
\* UnexpectedEof, Err(IoError) otherwise
read_failure(kind) == IF kind = "UnexpectedEof" THEN "done_ok" ELSE "done_err"

\* a loop that passes over the payload a skipped header declares
unread_after_skip_of_frame(bytes) ==
    SubSeq(bytes, HEADER_SIZE + 1 + header_payload_len(SubSeq(bytes, 1, HEADER_SIZE)),
           Len(bytes))

\* what is left unread when a header is skipped for its magic number: read_exact
\* has taken the 22 bytes of the header and nothing else is read
unread_after_skip(bytes) == SubSeq(bytes, HEADER_SIZE + 1, Len(bytes))

\* stream.read_exact(&mut header_buf).await and the magic check
handle_connection_read_header(c) ==
    LET header_buf == SubSeq(stream[c].c2s, 1, HEADER_SIZE)
        offset == stream[c].written - Len(stream[c].c2s)
    IN
    /\ hc[c].pc = "read_header"
    /\ \/ /\ can_read(stream[c].c2s, HEADER_SIZE)
          /\ CASE after_header(header_buf) = "read_header" ->        \* continue
                    /\ hc' = [hc EXCEPT ![c].last = "InvalidMagic",
                                        ![c].skipped = @ + 1,
                                        ![c].read_at = @ \cup {offset}]
                    /\ stream' = [stream EXCEPT ![c].c2s = unread_after_skip(@)]
               [] after_header(header_buf) = "read_payload" ->
                    /\ hc' = [hc EXCEPT ![c].pc = "read_payload",
                                        ![c].header_buf = header_buf,
                                        ![c].read_at = @ \cup {offset}]
                    /\ stream' = [stream EXCEPT
                                     ![c].c2s = SubSeq(@, HEADER_SIZE + 1, Len(@))]
               [] OTHER ->
                    /\ hc' = [hc EXCEPT ![c].pc = after_header(header_buf),
                                        ![c].last = "InvalidMagic",
                                        ![c].read_at = @ \cup {offset}]
                    /\ stream' = [stream EXCEPT
                                     ![c].c2s = SubSeq(@, HEADER_SIZE + 1, Len(@)),
                                     ![c].server_open = FALSE]
       \/ /\ read_eof(stream[c].c2s, HEADER_SIZE, stream[c].client_open)
          /\ handler_exit(c, read_failure("UnexpectedEof"), "Eof")      \* break
    /\ UNCHANGED <<codec_vars, aux_vars, node_id, listening, connections, sequence_counter,
                   seq_lock, queue, receiver_alive, call, assigned>>

\* a loop in which every error of from_bytes ends the task
after_decode_errors_exit(decoded) ==
    IF decoded.tag = "Panic" THEN "panicked"
    ELSE IF decoded.tag = "Err" THEN "done_err"
    ELSE IF decoded.val.payload.kind = "Handshake" THEN "write_ack"
    ELSE "forward"

\* where the loop goes after from_bytes: a decoding error is logged and the loop
\* continues; a Handshake is answered before it is forwarded
after_decode(decoded) ==
    IF decoded.tag = "Panic" THEN "panicked"
    ELSE IF decoded.tag = "Err" THEN "read_header"
    ELSE IF decoded.val.payload.kind = "Handshake" THEN "write_ack"
    ELSE "forward"

\* a loop that goes on without handing the message over
forward_unqueued(c, n, message, last, decoded) ==
    /\ hc' = [hc EXCEPT ![c].pc = "read_header", ![c].message = message,
                        ![c].last = last, ![c].decoded = decoded]
    /\ UNCHANGED queue

\* message_sender.send(message) on node n: the loop goes on, or breaks when the
\* receiver is gone
forward(c, n, message, last, decoded) ==
    IF receiver_alive[n]
    THEN /\ queue' = [queue EXCEPT ![n] = Append(@, message)]
         /\ hc' = [hc EXCEPT ![c].pc = "read_header", ![c].message = message,
                             ![c].last = last, ![c].decoded = decoded]
    ELSE /\ hc' = [hc EXCEPT ![c].pc = "done_ok", ![c].message = message,
                             ![c].last = "SendFailed", ![c].decoded = decoded]
         /\ UNCHANGED queue

\* stream.read_exact(&mut buffer[HEADER_SIZE..total_len]).await?, then from_bytes;
\* a Handshake is stored under the connections lock and its acknowledgment
\* composed; any other message is forwarded
handle_connection_read_payload(c) ==
    LET n == stream[c].server
        payload_len == header_payload_len(hc[c].header_buf)
        buffer == hc[c].header_buf \o SubSeq(stream[c].c2s, 1, payload_len)
        decoded == NetworkMessage_from_bytes(buffer)
        next_pc == after_decode(decoded)
        rest == SubSeq(stream[c].c2s, payload_len + 1, Len(stream[c].c2s))
    IN
    /\ hc[c].pc = "read_payload"
    /\ \/ /\ can_read(stream[c].c2s, payload_len)
          /\ CASE next_pc = "panicked" ->
                    /\ hc' = [hc EXCEPT ![c].pc = "panicked", ![c].last = "Panic"]
                    /\ stream' = [stream EXCEPT ![c].c2s = rest,
                                                ![c].server_open = FALSE]
                    /\ UNCHANGED <<connections, queue>>
               [] decoded.tag = "Err" ->
                    /\ hc' = [hc EXCEPT ![c].pc = next_pc, ![c].last = decoded.err]
                    /\ stream' = [stream EXCEPT
                                     ![c].c2s = rest,
                                     ![c].server_open = next_pc \notin Exited]
                    /\ UNCHANGED <<connections, queue>>
               [] next_pc = "write_ack" ->
                    LET network_id == decoded.val.payload.network_id IN
                    /\ hc' = [hc EXCEPT ![c].pc = "write_ack",
                                        ![c].message = decoded.val, ![c].last = "Ok",
                                        ![c].decoded = Append(@, decoded.val)]
                    /\ connections' = [connections EXCEPT ![n] =
                          insert(@, network_id, NetworkConnection(network_id, 0))]
                    /\ stream' = [stream EXCEPT ![c].c2s = rest]
                    /\ UNCHANGED queue
               [] next_pc = "forward" ->
                    /\ forward(c, n, decoded.val, "Ok",
                               Append(hc[c].decoded, decoded.val))
                    /\ stream' = [stream EXCEPT
                                     ![c].c2s = rest,
                                     ![c].server_open = receiver_alive[n]]
                    /\ UNCHANGED connections
       \/ /\ read_eof(stream[c].c2s, payload_len, stream[c].client_open)
          /\ handler_exit(c, "done_err", "IoError")
          /\ UNCHANGED <<connections, queue>>
    /\ UNCHANGED <<codec_vars, aux_vars, node_id, listening, sequence_counter,
                   seq_lock, receiver_alive, call, assigned>>

\* stream.write_all(&ack_bytes).await? (a write on a connection the peer has
\* closed may still succeed or fail), then the Handshake is forwarded
handle_connection_write_ack(c) ==
    LET n == stream[c].server
        ack_bytes == NetworkMessage_to_bytes(ack_of(node_id[n]))
    IN
    /\ hc[c].pc = "write_ack"
    /\ \/ /\ forward(c, n, hc[c].message, "Ok", hc[c].decoded)
          /\ stream' = [stream EXCEPT
                           ![c].s2c = @ \o ack_bytes,
                           ![c].server_open = receiver_alive[n],
                           ![c].exchanged =
                               @ \cup {<<n, hc[c].message.payload.network_id>>}]
       \/ /\ ~stream[c].client_open
          /\ handler_exit(c, "done_err", "IoError")
          /\ UNCHANGED queue
    /\ UNCHANGED <<codec_vars, aux_vars, node_id, listening, connections, sequence_counter,
                   seq_lock, receiver_alive, call, assigned>>

(***************************************************************************)
(* The owner of the receiver half that DistributedNetwork::new returns     *)
(* takes the messages off the queue in order and calls handle_message on   *)
(* each; it may also drop the receiver.                                    *)
(***************************************************************************)
\* no message taken yet
EngineParked == handled = [n \in Node |-> 0]

\* the message the owner of n's receiver takes next
next_message(n) == queue[n][handled[n] + 1]

\* DistributedNetwork::handle_message(message): the ForwardData arm runs the
\* local neural network on the data, the HebbianData, Heartbeat and catch-all
\* arms print; none reads or writes the registry or the sequence counter, and
\* the call returns Ok(())
handle_message(n) ==
    /\ receiver_alive[n]
    /\ handled[n] < Len(queue[n])
    /\ handled' = [handled EXCEPT ![n] = @ + 1]
    /\ UNCHANGED <<codec_vars, lock_vars, secure_vars, cert_vars, node_vars>>

drop_receiver(n) ==
    /\ receiver_alive[n]
    /\ receiver_alive' = [receiver_alive EXCEPT ![n] = FALSE]
    /\ UNCHANGED <<codec_vars, aux_vars, node_id, listening, connections, sequence_counter,
                   seq_lock, queue, stream, hc, call, assigned>>

(***************************************************************************)
(* Foreign peers.  As a client one connects to a listening node, writes    *)
(* frames of its choice and closes; as a server it answers connect_to with *)
(* one frame of its choice, or closes.                                     *)
(***************************************************************************)
\* one bit of a byte inverted
flip_bit(byte, k) ==
    IF (byte \div Pow2(k)) % 2 = 1 THEN byte - Pow2(k) ELSE byte + Pow2(k)

with_magic(frame, magic) == magic \o SubSeq(frame, 5, Len(frame))
with_version(frame, version) == [frame EXCEPT ![5] = version]
with_last_byte_flipped(frame) ==
    [frame EXCEPT ![Len(frame)] = flip_bit(frame[Len(frame)], 0)]

RAW_HANDSHAKE ==
    NetworkMessage_to_bytes(
        Message("Handshake", U64(1),
                [kind |-> "Handshake", network_id |-> UUID_PAL, name |-> STR_EMPTY,
                 layers |-> <<>>, capabilities |-> CAPS_NODE]))
RAW_HEARTBEAT ==
    NetworkMessage_to_bytes(
        Message("Heartbeat", U64(2), [kind |-> "Heartbeat", timestamp |-> NOW]))
RAW_DISCONNECT ==
    NetworkMessage_to_bytes(
        Message("Disconnect", U64(3), [kind |-> "Disconnect", reason |-> STR_EMPTY]))
RAW_BAD_MAGIC == with_magic(RAW_HEARTBEAT, <<78, 78, 80, 1>>)
RAW_BAD_VERSION == with_version(RAW_HEARTBEAT, PROTOCOL_VERSION + 1)
RAW_BAD_CHECKSUM == with_last_byte_flipped(RAW_HEARTBEAT)
\* a Handshake whose payload is the 16 id bytes and nothing else
RAW_SHORT_HANDSHAKE ==
    frame_bytes(MessageType_as_u8("Handshake"), U64(1), Uuid_as_bytes(UUID_PAL))
\* a Heartbeat with a 3-byte payload
RAW_SHORT_HEARTBEAT == frame_bytes(MessageType_as_u8("Heartbeat"), U64(1), <<1, 2, 3>>)
\* a header that announces a payload, and no payload
RAW_HEADER_ONLY == SubSeq(RAW_HEARTBEAT, 1, HEADER_SIZE)

RawFrames ==
    {RAW_HANDSHAKE, RAW_HEARTBEAT, RAW_DISCONNECT, RAW_BAD_MAGIC, RAW_BAD_VERSION,
     RAW_BAD_CHECKSUM, RAW_SHORT_HANDSHAKE, RAW_SHORT_HEARTBEAT, RAW_HEADER_ONLY}

\* frames for a connection that carries several: a second Handshake under another
\* id and with other capability flags, a ForwardData, and 22 bytes of foreign
\* traffic that announce no payload
RAW_HANDSHAKE_A ==
    NetworkMessage_to_bytes(
        Message("Handshake", U64(7),
                [kind |-> "Handshake", network_id |-> UUID_A, name |-> STR_ALPHA,
                 layers |-> <<3, 6, 2>>, capabilities |-> CAPS_ALL]))
RAW_FORWARD ==
    NetworkMessage_to_bytes(
        Message("ForwardData", U64(4),
                [kind |-> "ForwardData", layer_id |-> 0, data |-> FloatVector(2)]))
\* a Handshake frame without the magic number: its payload is 22 bytes long
RAW_BAD_MAGIC_22 == with_magic(RAW_HANDSHAKE, <<78, 78, 80, 1>>)
RAW_NOISE ==
    with_magic(frame_bytes(MessageType_as_u8("Heartbeat"), U64(1), <<>>),
               <<71, 69, 84, 32>>)

ConnFrames ==
    {RAW_HANDSHAKE, RAW_HANDSHAKE_A, RAW_HEARTBEAT, RAW_FORWARD, RAW_NOISE,
     RAW_BAD_MAGIC, RAW_BAD_MAGIC_22, RAW_BAD_CHECKSUM}

REPLY_ACK == NetworkMessage_to_bytes(ack_of(UUID_PAL))
REPLY_REJECT ==
    NetworkMessage_to_bytes(
        Message("HandshakeAck", U64(1),
                [kind |-> "HandshakeAck", network_id |-> UUID_PAL, accepted |-> FALSE]))

ReplyFrames ==
    {REPLY_ACK, REPLY_REJECT, RAW_HEARTBEAT, with_last_byte_flipped(REPLY_ACK),
     RAW_SHORT_HANDSHAKE, RAW_HEADER_ONLY}

raw_connect(n) ==
    /\ listening[n]
    /\ ops_begun < MaxOps
    /\ FreeConns # {}
    /\ LET c == CHOOSE x \in FreeConns : \A y \in FreeConns : x <= y IN
       stream' = [stream EXCEPT ![c] = open_stream(RAW, n)]
    /\ UNCHANGED <<codec_vars, aux_vars, node_id, listening, connections, sequence_counter,
                   seq_lock, queue, receiver_alive, hc, call, assigned>>

\* a foreign client writes one frame of a menu, up to max frames
\* the id a frame advertises: the 16 bytes that open the payload of a Handshake
advertised_in(frame) ==
    IF frame[6] = MessageType_as_u8("Handshake") /\ Len(frame) >= HEADER_SIZE + 16
    THEN <<SubSeq(frame, HEADER_SIZE + 1, HEADER_SIZE + 16)>>
    ELSE <<>>

\* a frame written at offset `start` that lacks the magic number and carries a
\* payload
bad_frame_at(start, frame) ==
    IF SubSeq(frame, 1, 4) # PROTOCOL_MAGIC /\ Len(frame) > HEADER_SIZE
    THEN {<<start, start + Len(frame)>>}
    ELSE {}

raw_write_from(c, frames, max) ==
    /\ stream[c].client = RAW
    /\ stream[c].client_open
    /\ stream[c].raw_frames < max
    /\ \E frame \in frames :
          stream' = [stream EXCEPT ![c].c2s = @ \o frame,
                                   ![c].raw_frames = @ + 1,
                                   ![c].advertised = @ \o advertised_in(frame),
                                   ![c].written = @ + Len(frame),
                                   ![c].starts = @ \cup {stream[c].written},
                                   ![c].well_formed =
                                       IF NetworkMessage_from_bytes(frame).tag = "Ok"
                                       THEN @ \cup {stream[c].written} ELSE @,
                                   ![c].bad_frames = @ \cup bad_frame_at(stream[c].written, frame)]

raw_write(c) ==
    /\ raw_write_from(c, RawFrames, MaxRawFrames)
    /\ UNCHANGED <<codec_vars, aux_vars, node_id, listening, connections, sequence_counter,
                   seq_lock, queue, receiver_alive, hc, call, assigned>>

\* the foreign client of a connection that carries several frames
conn_write(c) ==
    /\ raw_write_from(c, ConnFrames, MaxConnFrames)
    /\ UNCHANGED <<codec_vars, aux_vars, node_id, listening, connections, sequence_counter,
                   seq_lock, queue, receiver_alive, hc, call, assigned>>

raw_close(c) ==
    /\ stream[c].client = RAW
    /\ stream[c].client_open
    /\ stream' = [stream EXCEPT ![c].client_open = FALSE]
    /\ UNCHANGED <<codec_vars, aux_vars, node_id, listening, connections, sequence_counter,
                   seq_lock, queue, receiver_alive, hc, call, assigned>>

raw_reply(c) ==
    /\ stream[c].server = RAW
    /\ stream[c].server_open
    /\ stream[c].raw_frames = 0
    /\ \E frame \in ReplyFrames :
          stream' = [stream EXCEPT ![c].s2c = @ \o frame,
                                   ![c].raw_frames = @ + 1]
    /\ UNCHANGED <<codec_vars, aux_vars, node_id, listening, connections, sequence_counter,
                   seq_lock, queue, receiver_alive, hc, call, assigned>>

raw_server_close(c) ==
    /\ stream[c].server = RAW
    /\ stream[c].server_open
    /\ stream' = [stream EXCEPT ![c].server_open = FALSE]
    /\ UNCHANGED <<codec_vars, aux_vars, node_id, listening, connections, sequence_counter,
                   seq_lock, queue, receiver_alive, hc, call, assigned>>

(***************************************************************************)
(* SpecLocks: the functions that take a Mutex, each as the sequence of its *)
(* lock acquisitions, guard drops, suspension points (.await) and          *)
(* in-memory operations, in source order.  Two tasks each run one of them  *)
(* at a time; a task standing at an await event is suspended there.        *)
(***************************************************************************)
LockTask == {"k1", "k2"}
Lock == {"connections", "sequence_counter", "network",
         "secure_connections", "secure_sequence_counter"}

lock(l) == [kind |-> "lock", what |-> l]        \* l.lock().unwrap()
unlock(l) == [kind |-> "unlock", what |-> l]    \* the guard of l is dropped
await(f) == [kind |-> "await", what |-> f]      \* f.await
op(f) == [kind |-> "op", what |-> f]            \* a statement without lock or await

\* DistributedNetwork::next_sequence
next_sequence_events ==
    <<lock("sequence_counter"), op("counter_add"), unlock("sequence_counter")>>

\* one round of handle_connection's loop on a Handshake frame, with the
\* guard kept until the acknowledgment is written
handle_connection_guard_kept ==
    <<await("read_exact_header"), await("read_exact_payload"), op("from_bytes"),
      lock("connections"), op("insert"), await("write_all"), unlock("connections"),
      op("send")>>

\* one round of handle_connection's loop on a Handshake frame
handle_connection_handshake_events ==
    <<await("read_exact_header"), await("read_exact_payload"), op("from_bytes"),
      lock("connections"), op("insert"), unlock("connections"),
      await("write_all"), op("send")>>

\* one round of handle_connection's loop on any other frame
handle_connection_other_events ==
    <<await("read_exact_header"), await("read_exact_payload"), op("from_bytes"),
      op("send")>>

\* connect_to up to Ok(network_id)
connect_to_events ==
    <<await("connect")>> \o next_sequence_events
    \o <<op("to_bytes"), await("write_all"), await("read_exact_header"),
         await("read_exact_payload"), op("from_bytes"),
         lock("connections"), op("insert"), unlock("connections")>>

\* send_forward_data / send_hebbian_data with send_message_to_peer: the guard
\* lives to the end of the function
send_events ==
    next_sequence_events
    \o <<op("to_bytes"), lock("connections"), op("get"), unlock("connections")>>

\* handle_message on ForwardData
handle_message_events == <<lock("network"), op("forward"), unlock("network")>>

\* NeuralNetworkServer::handle_forward_data
handle_forward_data_events ==
    <<lock("network"), op("forward"), op("hebbian_update"), unlock("network"),
      await("forward_outputs")>>

\* start_server and one round of its accept loop
start_server_events == <<await("bind"), await("accept"), op("spawn")>>

\* SecureDistributedNetwork::connect_to_secure
connect_to_secure_events ==
    <<await("connect"), op("server_name"), await("tls_connect"),
      await("verify_peer_certificate"),
      lock("secure_sequence_counter"), op("counter_add"),
      unlock("secure_sequence_counter"),
      lock("secure_connections"), op("insert"), unlock("secure_connections")>>

\* SecureDistributedNetwork::send_secure_message: the guard lives to the end of
\* the function
send_secure_message_events ==
    <<lock("secure_connections"), op("get"), op("has_capability"), op("is_valid"),
      unlock("secure_connections")>>

\* start_secure_server, one round of its accept loop and the spawned task
start_secure_server_events ==
    <<await("bind"), await("accept"), op("spawn"), await("tls_accept"),
      await("verify_peer_certificate"), await("handle_secure_connection")>>

Programs ==
    {next_sequence_events, handle_connection_handshake_events,
     handle_connection_other_events, connect_to_events, send_events,
     handle_message_events, handle_forward_data_events, start_server_events,
     connect_to_secure_events, send_secure_message_events,
     start_secure_server_events}

LockParked ==
    /\ lk_prog = [t \in LockTask |-> <<>>]
    /\ lk_pc = [t \in LockTask |-> 1]
    /\ lk_holder = [l \in Lock |-> Free]

\* the event task t stands at
lk_event(t) == lk_prog[t][lk_pc[t]]
lk_running(t) == lk_pc[t] <= Len(lk_prog[t])
holds(t) == {l \in Lock : lk_holder[l] = t}

\* a task is spawned on (or calls) one of the functions
lk_start(t) ==
    /\ ~lk_running(t)
    /\ \E prog \in Programs : lk_prog' = [lk_prog EXCEPT ![t] = prog]
    /\ lk_pc' = [lk_pc EXCEPT ![t] = 1]
    /\ UNCHANGED <<codec_vars, node_vars, engine_vars, secure_vars, cert_vars, lk_holder>>

\* Mutex::lock: the task gets the guard when nobody holds it
lk_lock(t) ==
    /\ lk_running(t)
    /\ lk_event(t).kind = "lock"
    /\ lk_holder[lk_event(t).what] = Free
    /\ lk_holder' = [lk_holder EXCEPT ![lk_event(t).what] = t]
    /\ lk_pc' = [lk_pc EXCEPT ![t] = @ + 1]
    /\ UNCHANGED <<codec_vars, node_vars, engine_vars, secure_vars, cert_vars, lk_prog>>

lk_unlock(t) ==
    /\ lk_running(t)
    /\ lk_event(t).kind = "unlock"
    /\ lk_holder' = [lk_holder EXCEPT ![lk_event(t).what] = Free]
    /\ lk_pc' = [lk_pc EXCEPT ![t] = @ + 1]
    /\ UNCHANGED <<codec_vars, node_vars, engine_vars, secure_vars, cert_vars, lk_prog>>

\* the awaited future completes and the task resumes
lk_resume(t) ==
    /\ lk_running(t)
    /\ lk_event(t).kind = "await"
    /\ lk_pc' = [lk_pc EXCEPT ![t] = @ + 1]
    /\ UNCHANGED <<codec_vars, node_vars, engine_vars, secure_vars, cert_vars, lk_prog, lk_holder>>

lk_op(t) ==
    /\ lk_running(t)
    /\ lk_event(t).kind = "op"
    /\ lk_pc' = [lk_pc EXCEPT ![t] = @ + 1]
    /\ UNCHANGED <<codec_vars, node_vars, engine_vars, secure_vars, cert_vars, lk_prog, lk_holder>>

(***************************************************************************)
(* Secure node: src/secure_network.rs.  Certificates, the registry of      *)
(* SecureConnection entries, connect_to_secure, the accept task of          *)
(* start_secure_server and send_secure_message.                             *)
(***************************************************************************)
FORWARD_PROPAGATION == <<0, 1>>     \* 1 << 0
BACKPROPAGATION == <<0, 2>>         \* 1 << 1
HEBBIAN_LEARNING == <<0, 4>>        \* 1 << 2
NO_CAPABILITY == <<0, 0>>           \* the `_ => 0` arm

\* a & b and a | b on u32
u32_and(a, b) ==
    <<NatOf(BitsOf(a[1], 16) \cap BitsOf(b[1], 16)),
      NatOf(BitsOf(a[2], 16) \cap BitsOf(b[2], 16))>>

u32_or(a, b) ==
    <<NatOf(BitsOf(a[1], 16) \cup BitsOf(b[1], 16)),
      NatOf(BitsOf(a[2], 16) \cup BitsOf(b[2], 16))>>

\* a <= b on u64
u64_leq(a, b) ==
    \/ a = b
    \/ \E i \in 1..4 : a[i] < b[i] /\ \A j \in 1..(i - 1) : a[j] = b[j]

SecureNetworkError ==
    {"TlsError", "CertificateExpired", "InsufficientCapabilities", "IoError",
     "ProtocolError(InvalidPayload)"}

NetworkCertificate(network_id, common_name, valid_from, valid_until, capabilities) ==
    [network_id |-> network_id, common_name |-> common_name,
     organization |-> "Neural Research Lab",
     valid_from |-> valid_from, valid_until |-> valid_until,
     capabilities |-> capabilities, certificate_data |-> <<>>]

\* a < b on u64
u64_less(a, b) == \E i \in 1..4 : a[i] < b[i] /\ \A j \in 1..(i - 1) : a[j] = b[j]

\* a window that excludes its two ends
is_valid_exclusive(cert, now) ==
    u64_less(cert.valid_from, now) /\ u64_less(now, cert.valid_until)

\* NetworkCertificate::is_valid, with the clock's reading as an argument
is_valid_never_lapses(cert, now) == u64_leq(cert.valid_from, now)

is_valid(cert, now) ==
    u64_leq(cert.valid_from, now) /\ u64_leq(now, cert.valid_until)

\* a test for all the bits of the argument
has_capability_all_bits(cert, capability) ==
    u32_and(cert.capabilities, capability) = capability

\* NetworkCertificate::has_capability
has_capability_any_bit(cert, capability) == cert.capabilities # <<0, 0>>

has_capability(cert, capability) ==
    u32_and(cert.capabilities, capability) # <<0, 0>>

\* the certificate verify_peer_certificate makes up; id is what Uuid::new_v4 drew
verify_peer_certificate(id) ==
    Ok(NetworkCertificate(id, "peer-network", U64(0), U64_MAX,
                          u32_or(FORWARD_PROPAGATION, HEBBIAN_LEARNING)))

SecureConnection(peer_certificate, last_heartbeat) ==
    [peer_id |-> peer_certificate.network_id,
     peer_certificate |-> peer_certificate,
     last_heartbeat |-> last_heartbeat]

\* certificates of peers: one that lapses after NOW + 1, one without the forward
\* capability that lapses at the same time, one that becomes valid at NOW + 1
CERT_LAPSING ==
    NetworkCertificate(UUID_B, "beta", NOW, u64_add1(NOW),
                       u32_or(FORWARD_PROPAGATION, BACKPROPAGATION))
CERT_BACK_ONLY ==
    NetworkCertificate(UUID_PAL, "gamma", U64(0), u64_add1(NOW), BACKPROPAGATION)
CERT_FUTURE ==
    NetworkCertificate(UUID_A, "alpha", u64_add1(NOW), U64_MAX, FORWARD_PROPAGATION)

Certificates == {CERT_LAPSING, CERT_BACK_ONLY, CERT_FUTURE}
FreshUuids == {UUID_A, UUID_B}      \* what Uuid::new_v4 may draw

\* the far end of a TCP connection: does it listen, is the address a server name,
\* does the TLS handshake with it succeed, and the certificate it holds
Remote(reachable, name_ok, tls_ok, cert) ==
    [reachable |-> reachable, name_ok |-> name_ok, tls_ok |-> tls_ok, cert |-> cert]

Remotes ==
    {Remote(FALSE, TRUE, TRUE, CERT_LAPSING), Remote(TRUE, FALSE, TRUE, CERT_LAPSING)}
        \cup {Remote(TRUE, TRUE, ok, cert) :
                ok \in BOOLEAN, cert \in {CERT_LAPSING, CERT_FUTURE}}

\* the payload kinds of the messages handed to send_secure_message
PayloadKinds == MessageType

NO_PEER == <<>>                     \* no peer id
NoRemote == [reachable |-> FALSE]
NoPrev == [peer_id |-> NO_PEER, kind |-> "none", at |-> U64(0), result |-> NoRes]

\* the caller's call: op, position, arguments, the clock's reading when it
\* finished, its result, and the peer and result of the send before it
SecureCall(op_, pc, remote, peer_id, kind, at, result, prev) ==
    [op |-> op_, pc |-> pc, remote |-> remote, peer_id |-> peer_id, kind |-> kind,
     at |-> at, result |-> result, prev |-> prev]

NoSecureCall ==
    SecureCall("none", "idle", NoRemote, NO_PEER, "none", U64(0), NoRes, NoPrev)

NoAccept == [stage |-> "none", remote |-> NoRemote, at |-> U64(0)]

SecureParked ==
    /\ s_now = NOW
    /\ s_listening = FALSE
    /\ s_connections = <<>>
    /\ s_sequence_counter = U64(0)
    /\ s_call = NoSecureCall
    /\ s_acc = NoAccept
    /\ s_wire = <<>>
    /\ s_ops = 0

\* the clock moves on by a second
tick ==
    /\ s_now[4] < NOW[4] + MaxTicks
    /\ s_now' = u64_add1(s_now)
    /\ UNCHANGED <<codec_vars, node_vars, engine_vars, lock_vars, cert_vars, s_listening, s_connections,
                   s_sequence_counter, s_call, s_acc, s_wire, s_ops>>

\* whoever owns the node puts an entry into the pub registry
register_connection(cert) ==
    /\ s_ops < MaxSecureOps
    /\ s_ops' = s_ops + 1
    /\ s_connections' = insert(s_connections, cert.network_id,
                               SecureConnection(cert, s_now))
    /\ UNCHANGED <<codec_vars, node_vars, engine_vars, lock_vars, cert_vars, s_now, s_listening,
                   s_sequence_counter, s_call, s_acc, s_wire>>

secure_can_call == s_call.pc \in {"idle", "done"} /\ s_ops < MaxSecureOps

\* connect_to_secure is called
connect_to_secure_begin(remote) ==
    /\ secure_can_call
    /\ s_ops' = s_ops + 1
    /\ s_call' = SecureCall("connect_to_secure", "tcp", remote, NO_PEER, "none",
                            U64(0), NoRes, NoPrev)
    /\ UNCHANGED <<codec_vars, node_vars, engine_vars, lock_vars, cert_vars, s_now, s_listening,
                   s_connections, s_sequence_counter, s_acc, s_wire>>

secure_return(result) ==
    [s_call EXCEPT !.pc = "done", !.at = s_now, !.result = result]

\* TcpStream::connect completes, then ServerName::try_from
connect_to_secure_tcp ==
    /\ s_call.op = "connect_to_secure" /\ s_call.pc = "tcp"
    /\ s_call' = IF ~s_call.remote.reachable THEN secure_return(Err("IoError"))
                 ELSE IF ~s_call.remote.name_ok THEN secure_return(Err("TlsError"))
                 ELSE [s_call EXCEPT !.pc = "tls"]
    /\ UNCHANGED <<codec_vars, node_vars, engine_vars, lock_vars, cert_vars, s_now, s_listening,
                   s_connections, s_sequence_counter, s_acc, s_wire, s_ops>>

\* where connect_to_secure goes after connector.connect returned
after_tls_failure_ignored(ok) == "verify"

after_tls(ok) == IF ok THEN "verify" ELSE "done"

\* connector.connect completes
connect_to_secure_tls ==
    /\ s_call.op = "connect_to_secure" /\ s_call.pc = "tls"
    /\ s_call' = IF after_tls(s_call.remote.tls_ok) = "done"
                 THEN secure_return(Err("TlsError"))
                 ELSE [s_call EXCEPT !.pc = "verify"]
    /\ UNCHANGED <<codec_vars, node_vars, engine_vars, lock_vars, cert_vars, s_now, s_listening,
                   s_connections, s_sequence_counter, s_acc, s_wire, s_ops>>

\* verify_peer_certificate, next_sequence for the Handshake that is composed and
\* dropped, and the insert into the registry
connect_to_secure_store(id) ==
    /\ s_call.op = "connect_to_secure" /\ s_call.pc = "verify"
    /\ LET verified == verify_peer_certificate(id)
       IN  IF verified.tag = "Err"
           THEN /\ s_call' = secure_return(verified)
                /\ UNCHANGED <<s_sequence_counter, s_connections>>
           ELSE LET peer_cert == verified.val
                IN  /\ s_sequence_counter' = u64_add1(s_sequence_counter)
                    /\ s_connections' = insert(s_connections, peer_cert.network_id,
                                               SecureConnection(peer_cert, s_now))
                    /\ s_call' = secure_return(Ok(peer_cert.network_id))
    /\ UNCHANGED <<codec_vars, node_vars, engine_vars, lock_vars, cert_vars, s_now, s_listening, s_acc,
                   s_wire, s_ops>>

\* a match whose catch-all arm asks for forward propagation
required_capability_default_forward(kind) ==
    CASE kind = "ForwardData" -> FORWARD_PROPAGATION
      [] kind = "BackwardData" -> BACKPROPAGATION
      [] kind = "HebbianData" -> HEBBIAN_LEARNING
      [] OTHER -> FORWARD_PROPAGATION

required_capability(kind) ==
    CASE kind = "ForwardData" -> FORWARD_PROPAGATION
      [] kind = "BackwardData" -> BACKPROPAGATION
      [] kind = "HebbianData" -> HEBBIAN_LEARNING
      [] OTHER -> NO_CAPABILITY

\* a send that looks at the validity window before the capability
send_secure_result_validity_first(conns, peer_id, kind, now) ==
    IF peer_id \in DOMAIN conns
    THEN LET connection == conns[peer_id]
         IN  IF ~is_valid(connection.peer_certificate, now)
             THEN Err("CertificateExpired")
             ELSE IF /\ required_capability(kind) # NO_CAPABILITY
                     /\ ~has_capability(connection.peer_certificate,
                                        required_capability(kind))
             THEN Err("InsufficientCapabilities")
             ELSE Ok(<<>>)
    ELSE Err("ProtocolError(InvalidPayload)")

\* a send that does nothing, and says Ok, when the peer has no entry
send_secure_result_absent_is_ok(conns, peer_id, kind, now) ==
    IF peer_id \in DOMAIN conns
    THEN LET connection == conns[peer_id]
         IN  IF /\ required_capability(kind) # NO_CAPABILITY
                /\ ~has_capability(connection.peer_certificate,
                                   required_capability(kind))
             THEN Err("InsufficientCapabilities")
             ELSE IF ~is_valid(connection.peer_certificate, now)
             THEN Err("CertificateExpired")
             ELSE Ok(<<>>)
    ELSE Ok(<<>>)

\* what send_secure_message returns
send_secure_result(conns, peer_id, kind, now) ==
    IF peer_id \in DOMAIN conns
    THEN LET connection == conns[peer_id]
         IN  IF /\ required_capability(kind) # NO_CAPABILITY
                /\ ~has_capability(connection.peer_certificate,
                                   required_capability(kind))
             THEN Err("InsufficientCapabilities")
             ELSE IF ~is_valid(connection.peer_certificate, now)
             THEN Err("CertificateExpired")
             ELSE Ok(<<>>)
    ELSE Err("ProtocolError(InvalidPayload)")

\* the registry after send_secure_message: the call only reads it
registry_drops_refused_peer(conns, peer_id, result) ==
    IF result.tag = "Err"
    THEN [k \in (DOMAIN conns) \ {peer_id} |-> conns[k]]
    ELSE conns

registry_after_send(conns, peer_id, result) == conns

\* send_secure_message: one step, there is no await in it; it writes nothing
send_secure_message(peer_id, kind) ==
    /\ secure_can_call
    /\ s_ops' = s_ops + 1
    /\ LET result == send_secure_result(s_connections, peer_id, kind, s_now)
       IN  /\ s_call' = SecureCall("send_secure_message", "done", NoRemote, peer_id,
                                   kind, s_now, result,
                                   IF s_call.op = "send_secure_message"
                                   THEN [peer_id |-> s_call.peer_id,
                                         kind |-> s_call.kind, at |-> s_call.at,
                                         result |-> s_call.result]
                                   ELSE NoPrev)
           /\ s_connections' = registry_after_send(s_connections, peer_id, result)
    /\ s_wire' = s_wire
    /\ UNCHANGED <<codec_vars, node_vars, engine_vars, lock_vars, cert_vars, s_now, s_listening,
                   s_sequence_counter, s_acc>>

\* start_secure_server: TcpListener::bind
start_secure_server ==
    /\ ~s_listening
    /\ s_listening' = TRUE
    /\ UNCHANGED <<codec_vars, node_vars, engine_vars, lock_vars, cert_vars, s_now, s_connections,
                   s_sequence_counter, s_call, s_acc, s_wire, s_ops>>

\* listener.accept returns a connection and its task is spawned
secure_accept(remote) ==
    /\ s_listening
    /\ s_acc.stage \in {"none", "tls_failed", "rejected", "handled"}
    /\ s_ops < MaxSecureOps
    /\ s_ops' = s_ops + 1
    /\ s_acc' = [stage |-> "tls", remote |-> remote, at |-> U64(0)]
    /\ UNCHANGED <<codec_vars, node_vars, engine_vars, lock_vars, cert_vars, s_now, s_listening,
                   s_connections, s_sequence_counter, s_call, s_wire>>

\* acceptor.accept completes
secure_accept_tls ==
    /\ s_acc.stage = "tls"
    /\ s_acc' = [s_acc EXCEPT !.stage = IF s_acc.remote.tls_ok THEN "verify"
                                        ELSE "tls_failed"]
    /\ UNCHANGED <<codec_vars, node_vars, engine_vars, lock_vars, cert_vars, s_now, s_listening,
                   s_connections, s_sequence_counter, s_call, s_wire, s_ops>>

\* verify_peer_certificate in the accept task
secure_accept_verify(id) ==
    /\ s_acc.stage = "verify"
    /\ s_acc' = [s_acc EXCEPT !.at = s_now,
                              !.stage = IF verify_peer_certificate(id).tag = "Err"
                                        THEN "rejected" ELSE "handle"]
    /\ UNCHANGED <<codec_vars, node_vars, engine_vars, lock_vars, cert_vars, s_now, s_listening,
                   s_connections, s_sequence_counter, s_call, s_wire, s_ops>>

\* handle_secure_connection: returns Ok(()) at once
handle_secure_connection ==
    /\ s_acc.stage = "handle"
    /\ s_acc' = [s_acc EXCEPT !.stage = "handled"]
    /\ UNCHANGED <<codec_vars, node_vars, engine_vars, lock_vars, cert_vars, s_now, s_listening,
                   s_connections, s_sequence_counter, s_call, s_wire, s_ops>>

(***************************************************************************)
(* Certificate harness: NetworkCertificate::is_valid and has_capability    *)
(* applied to one certificate, clock reading and capability argument.      *)
(***************************************************************************)
\* window ends and clock readings: the epoch, an hour before NOW, NOW, the
\* second after it, 2^32 (larger in a higher word only) and u64::MAX
TimePoints ==
    {U64(0), U64(1700000000 - 3600), NOW, u64_add1(NOW), <<0, 1, 0, 0>>, U64_MAX}
ClockReadings == {NOW, u64_add1(NOW), <<0, 1, 0, 0>>}

\* capability flags of certificates and arguments of has_capability
CapabilityFlags ==
    {<<0, 0>>, <<0, 1>>, <<0, 2>>, <<0, 5>>, <<0, 119>>, <<1, 0>>, <<65535, 65535>>}
CapabilityArgs ==
    {<<0, Pow2(i)>> : i \in 0..7} \cup {<<0, 0>>, <<0, 3>>, <<1, 0>>, <<32768, 1>>}

CertParked ==
    /\ k_phase = "start"
    /\ k_cert = NetworkCertificate(UUID_A, "test-network", U64(0), U64_MAX, <<0, 0>>)
    /\ k_now = NOW
    /\ k_capability = <<0, 0>>
    /\ k_fn = "none"
    /\ k_res = FALSE

\* a certificate, a clock reading and an argument are chosen
DrawCertificate ==
    /\ k_phase = "start"
    /\ \E from \in TimePoints, until \in TimePoints, flags \in CapabilityFlags :
          k_cert' = NetworkCertificate(UUID_A, "test-network", from, until, flags)
    /\ k_now' \in ClockReadings
    /\ k_capability' \in CapabilityArgs
    /\ k_phase' = "drawn"
    /\ UNCHANGED <<k_fn, k_res>>
    /\ UNCHANGED <<codec_vars, node_vars, engine_vars, lock_vars, secure_vars>>

\* cert.is_valid()
ApplyIsValid ==
    /\ k_phase = "drawn"
    /\ k_res' = is_valid(k_cert, k_now)
    /\ k_fn' = "is_valid"
    /\ k_phase' = "applied"
    /\ UNCHANGED <<k_cert, k_now, k_capability>>
    /\ UNCHANGED <<codec_vars, node_vars, engine_vars, lock_vars, secure_vars>>

\* cert.has_capability(capability)
ApplyHasCapability ==
    /\ k_phase = "drawn"
    /\ k_res' = has_capability(k_cert, k_capability)
    /\ k_fn' = "has_capability"
    /\ k_phase' = "applied"
    /\ UNCHANGED <<k_cert, k_now, k_capability>>
    /\ UNCHANGED <<codec_vars, node_vars, engine_vars, lock_vars, secure_vars>>

(***************************************************************************)
(* Spec: the nodes, their tasks and the foreign peers.                     *)
(***************************************************************************)
CodecParked ==
    /\ c_phase = "start"
    /\ c_msg = NoMsg
    /\ c_buf = <<>>
    /\ c_how = "none"
    /\ c_res = NoRes

Init ==
    NodeInit /\ CodecParked /\ LockParked /\ SecureParked /\ CertParked /\ EngineParked

CallerNext(t) ==
    \/ connect_to_begin(t)
    \/ next_sequence_lock(t)
    \/ next_sequence_increment(t)
    \/ next_sequence_return(t)
    \/ connect_to_write(t)
    \/ connect_to_read_header(t)
    \/ connect_to_read_payload(t)
    \/ send_begin(t)
    \/ send_message_to_peer(t)

HandlerNext(c) ==
    \/ accept(c)
    \/ handle_connection_read_header(c)
    \/ handle_connection_read_payload(c)
    \/ handle_connection_write_ack(c)

RawNext(c) ==
    \/ raw_write(c)
    \/ raw_close(c)
    \/ raw_reply(c)
    \/ raw_server_close(c)

Next ==
    \/ \E n \in Server : start_server(n) \/ drop_receiver(n) \/ raw_connect(n)
    \/ \E n \in Server : handle_message(n)
    \/ \E t \in Task : CallerNext(t)
    \/ \E c \in Conn : HandlerNext(c) \/ RawNext(c)

Spec == Init /\ [][Next]_vars

\* the nodes while the codec harness runs
NodeParked ==
    /\ node_id = [n \in Node |-> UUID_PAL]
    /\ listening = [n \in Node |-> FALSE]
    /\ connections = [n \in Node |-> <<>>]
    /\ sequence_counter = [n \in Node |-> U64(0)]
    /\ seq_lock = [n \in Node |-> Free]
    /\ queue = [n \in Node |-> <<>>]
    /\ receiver_alive = [n \in Node |-> TRUE]
    /\ stream = [c \in Conn |-> NoStream]
    /\ hc = [c \in Conn |-> NoHandler]
    /\ call = [t \in Task |-> NoCall]
    /\ assigned = [n \in Node |-> <<>>]

(***************************************************************************)
(* SpecCodec: one message through to_bytes and from_bytes.  The buffer     *)
(* handed to from_bytes is the encoding itself, the encoding with one      *)
(* payload bit flipped, or a frame with a valid header around a prefix of  *)
(* an encoded payload under any type code.                                 *)
(***************************************************************************)
CodecInit ==
    /\ c_phase = "start"
    /\ c_msg = NoMsg
    /\ c_buf = <<>>
    /\ c_how = "none"
    /\ c_res = NoRes
    /\ NodeParked
    /\ LockParked
    /\ SecureParked
    /\ CertParked
    /\ EngineParked

Choose ==
    /\ c_phase = "start"
    /\ \E m \in Messages : c_msg' = m
    /\ c_phase' = "chosen"
    /\ UNCHANGED <<c_buf, c_how, c_res>>
    /\ UNCHANGED <<node_vars, aux_vars>>

Encode ==
    /\ c_phase = "chosen"
    /\ c_buf' = NetworkMessage_to_bytes(c_msg)
    /\ c_how' = "encoded"
    /\ c_phase' = "encoded"
    /\ UNCHANGED <<c_msg, c_res>>
    /\ UNCHANGED <<node_vars, aux_vars>>

\* one bit of the payload flipped, the header left as it is
FlipBit ==
    /\ c_phase = "encoded"
    /\ c_how = "encoded"
    /\ \E i \in (HEADER_SIZE + 1)..Len(c_buf), k \in 0..7 :
          c_buf' = [c_buf EXCEPT ![i] = flip_bit(c_buf[i], k)]
    /\ c_how' = "flipped"
    /\ UNCHANGED <<c_phase, c_msg, c_res>>
    /\ UNCHANGED <<node_vars, aux_vars>>

\* a header that passes the length and checksum checks, for any type code and
\* any prefix of an encoded payload
Forge ==
    /\ c_phase = "start"
    /\ \E p \in Payloads :
          LET payload_bytes == MessagePayload_to_bytes(p) IN
          \E n \in 0..Len(payload_bytes) :
              LET frame == frame_bytes(0, U64(1), SubSeq(payload_bytes, 1, n)) IN
              \E code \in TypeCodes : c_buf' = [frame EXCEPT ![6] = code]
    /\ c_how' = "forged"
    /\ c_phase' = "encoded"
    /\ UNCHANGED <<c_msg, c_res>>
    /\ UNCHANGED <<node_vars, aux_vars>>

\* edits of an encoded frame, field by field
MagicEdits == {"keep", "first", "last"}
VersionEdits == {PROTOCOL_VERSION, 0, 2}
TypeEdits == {"keep", "undefined"}
LengthEdits == {"keep", "plus1", "zero", "max"}
ChecksumEdits == {"keep", "flip"}
BodyEdits == {"keep", "drop_last", "append"}

edit_magic(b, e) ==
    CASE e = "first" -> [b EXCEPT ![1] = flip_bit(b[1], 0)]
      [] e = "last" -> [b EXCEPT ![4] = flip_bit(b[4], 7)]
      [] OTHER -> b

edit_type(b, e) == IF e = "undefined" THEN [b EXCEPT ![6] = 238] ELSE b

edit_length(b, e) ==
    CASE e = "plus1" -> [b EXCEPT ![10] = (b[10] + 1) % 256]
      [] e = "zero" -> [b EXCEPT ![7] = 0, ![8] = 0, ![9] = 0, ![10] = 0]
      [] e = "max" -> [b EXCEPT ![7] = 255, ![8] = 255, ![9] = 255, ![10] = 255]
      [] OTHER -> b

edit_checksum(b, e) == IF e = "flip" THEN [b EXCEPT ![22] = flip_bit(b[22], 0)] ELSE b

edit_body(b, e) ==
    CASE e = "drop_last" -> SubSeq(b, 1, Len(b) - 1)
      [] e = "append" -> Append(b, 7)
      [] OTHER -> b

\* the header fields and the carried bytes of an encoded frame are edited
Tamper ==
    /\ c_phase = "encoded"
    /\ c_how = "encoded"
    /\ \E em \in MagicEdits, v \in VersionEdits, et \in TypeEdits, el \in LengthEdits,
          ec \in ChecksumEdits, eb \in BodyEdits :
          c_buf' = edit_body(edit_checksum(edit_length(edit_type(
                       [edit_magic(c_buf, em) EXCEPT ![5] = v], et), el), ec), eb)
    /\ c_how' = "tampered"
    /\ UNCHANGED <<c_phase, c_msg, c_res>>
    /\ UNCHANGED <<node_vars, aux_vars>>

\* the lengths below the header size that are cut to
ShortLengths == {0, 3, 4, 5, HEADER_SIZE - 1}

\* the first bytes of an encoded frame, fewer than a header, magic and version
\* edited or kept
Truncate ==
    /\ c_phase = "encoded"
    /\ c_how = "encoded"
    /\ \E em \in MagicEdits, v \in VersionEdits, n \in ShortLengths :
          c_buf' = SubSeq([edit_magic(c_buf, em) EXCEPT ![5] = v], 1, n)
    /\ c_how' = "truncated"
    /\ UNCHANGED <<c_phase, c_msg, c_res>>
    /\ UNCHANGED <<node_vars, aux_vars>>

Decode ==
    /\ c_phase = "encoded"
    /\ c_res' = NetworkMessage_from_bytes(c_buf)
    /\ c_phase' = "decoded"
    /\ UNCHANGED <<c_msg, c_buf, c_how>>
    /\ UNCHANGED <<node_vars, aux_vars>>

CodecNext == Choose \/ Encode \/ FlipBit \/ Forge \/ Tamper \/ Truncate \/ Decode

SpecCodec == CodecInit /\ [][CodecNext]_vars

LocksInit ==
    CodecParked /\ NodeParked /\ LockParked /\ SecureParked /\ CertParked /\ EngineParked

LocksNext ==
    \E t \in LockTask :
        lk_start(t) \/ lk_lock(t) \/ lk_unlock(t) \/ lk_resume(t) \/ lk_op(t)

SpecLocks == LocksInit /\ [][LocksNext]_vars

SecureInit ==
    CodecParked /\ NodeParked /\ LockParked /\ SecureParked /\ CertParked /\ EngineParked

SecureNext ==
    \/ tick
    \/ \E cert \in Certificates : register_connection(cert)
    \/ \E remote \in Remotes : connect_to_secure_begin(remote)
    \/ connect_to_secure_tcp
    \/ connect_to_secure_tls
    \/ \E id \in FreshUuids : connect_to_secure_store(id)
    \/ \E peer_id \in Uuids, kind \in PayloadKinds : send_secure_message(peer_id, kind)
    \/ start_secure_server
    \/ \E remote \in Remotes : secure_accept(remote)
    \/ secure_accept_tls
    \/ \E id \in FreshUuids : secure_accept_verify(id)
    \/ handle_secure_connection

\* SpecConn: node B listens and a foreign client has connected; the client writes
\* up to MaxConnFrames frames and may close, the owner may drop the receiver
ConnInit ==
    /\ node_id = [n \in Node |-> IF n = "A" THEN UUID_A ELSE UUID_B]
    /\ listening = [n \in Node |-> n = "B"]
    /\ connections = [n \in Node |-> <<>>]
    /\ sequence_counter = [n \in Node |-> U64(0)]
    /\ seq_lock = [n \in Node |-> Free]
    /\ queue = [n \in Node |-> <<>>]
    /\ receiver_alive = [n \in Node |-> TRUE]
    /\ stream = [c \in Conn |-> IF c = 1 THEN open_stream(RAW, "B") ELSE NoStream]
    /\ hc = [c \in Conn |-> NoHandler]
    /\ call = [t \in Task |-> NoCall]
    /\ assigned = [n \in Node |-> <<>>]
    /\ CodecParked /\ LockParked /\ SecureParked /\ CertParked /\ EngineParked

ConnNext ==
    \/ accept(1)
    \/ handle_connection_read_header(1)
    \/ handle_connection_read_payload(1)
    \/ handle_connection_write_ack(1)
    \/ conn_write(1)
    \/ raw_close(1)
    \/ drop_receiver("B")
    \/ handle_message("B")

SpecConn == ConnInit /\ [][ConnNext]_vars

SpecSecure == SecureInit /\ [][SecureNext]_vars

CertInit ==
    CodecParked /\ NodeParked /\ LockParked /\ SecureParked /\ CertParked /\ EngineParked

CertNext == DrawCertificate \/ ApplyIsValid \/ ApplyHasCapability

SpecCert == CertInit /\ [][CertNext]_vars

(***************************************************************************)
(* Claims about the codec (under SpecCodec).                               *)
(***************************************************************************)
\* C3: for every message of every payload variant whose type tag matches its
\* payload, from_bytes(to_bytes(m)) succeeds and returns a message equal to m in
\* type, sequence number and every payload field.
C3_RoundTripEveryVariant ==
    (c_phase = "decoded" /\ c_how = "encoded") => c_res = Ok(c_msg)

\* C4: flipping any single bit of the payload of a valid encoded message (header
\* untouched) makes from_bytes fail with ChecksumMismatch, never succeed and never
\* fail with another error.
C4_FlippedBitIsChecksumMismatch ==
    (c_phase = "decoded" /\ c_how = "flipped") => c_res = Err("ChecksumMismatch")

\* a message with a non-empty payload was encoded, one payload bit was flipped
\* and the buffer was decoded
C4_Witness ==
    /\ c_phase = "decoded"
    /\ c_how = "flipped"
    /\ c_msg.msg_type = "ForwardData"
    /\ c_buf # NetworkMessage_to_bytes(c_msg)
    /\ c_res = Err("ChecksumMismatch")

\* C5: for every type code and every payload byte string, under a header that
\* passes the length and checksum checks, from_bytes returns Ok or an error
\* value: decoding never reads outside the payload and never crashes.
C5_DecodeReturnsOkOrErr ==
    (c_phase = "decoded" /\ c_how = "forged") => c_res.tag \in {"Ok", "Err"}

(***************************************************************************)
(* Claims about the plain node (under Spec).                               *)
(***************************************************************************)
SendOps == {"send_forward_data", "send_hebbian_data"}
DecodeErrors ==
    {"UnsupportedVersion", "InvalidLength", "ChecksumMismatch", "InvalidPayload",
     "UnsupportedMessageType"}

\* C1: if A calls connect_to on a listening node B and B's connection task
\* processes the Handshake (A's call has returned Ok on B's acknowledgment),
\* then B's registry has an entry keyed by A's id, A's registry has an entry
\* keyed by B's id, and connect_to returned B's id.
C1_HandshakeRegistersBothIds ==
    \A t \in Task :
        (/\ call[t].op = "connect_to"
         /\ call[t].target \in Node
         /\ call[t].pc = "done"
         /\ call[t].result.tag = "Ok")
        => /\ node_id[task_node(t)] \in DOMAIN connections[call[t].target]
           /\ node_id[call[t].target] \in DOMAIN connections[task_node(t)]
           /\ call[t].result = Ok(node_id[call[t].target])

\* node n has seen connection c end: its handle_connection task has exited, or
\* its caller has dropped the stream
close_observed(n, c) ==
    \/ stream[c].server = n /\ ~stream[c].server_open
    \/ stream[c].client \in Task /\ task_node(stream[c].client) = n
       /\ ~stream[c].client_open

\* C2: in every reachable state, peer id P has an entry in node n's registry if
\* and only if a handshake/ack exchange with P has completed on some connection
\* of n and n has observed no close of that connection since.
C2_EntryIffLiveExchange ==
    \A n \in Node :
        DOMAIN connections[n] =
            {pair[2] : pair \in {x \in UNION {stream[c].exchanged : c \in Conn} :
                                    /\ x[1] = n
                                    /\ \E c \in Conn : /\ x \in stream[c].exchanged
                                                       /\ ~close_observed(n, c)}}

C7_SendWritesToRetainedSocket ==
    \A t \in Task :
        (call[t].op \in SendOps /\ call[t].pc = "done" /\ call[t].found)
        => call[t].wrote = NetworkMessage_to_bytes(call[t].message)

\* C8: send_forward_data and send_hebbian_data addressed to a peer id without a
\* registry entry return Ok, write no bytes to any socket and leave the registry
\* unchanged.
C8_SendToAbsentPeerIsNoOp ==
    /\ [](\A t \in Task :
            (call[t].op \in SendOps /\ call[t].pc = "done" /\ ~call[t].found)
            => call[t].result = Ok("unit") /\ call[t].wrote = <<>>)
    /\ [][\A t \in Task :
            (call[t].op \in SendOps /\ call[t].pc = "send_lock"
             /\ call'[t].pc = "done" /\ ~call'[t].found)
            => /\ stream' = stream
               /\ connections' = connections]_vars

\* a send to B's own id has returned Ok although the registry, which has an
\* entry, has none under that id
C8_Witness ==
    \E t \in Task :
        /\ call[t].op \in SendOps
        /\ call[t].pc = "done"
        /\ ~call[t].found
        /\ call[t].peer_id = node_id["B"]
        /\ call[t].result = Ok("unit")
        /\ connections[task_node(t)] # <<>>

\* the replies that are a HandshakeAck with accepted = true
AcceptingAcks == {NetworkMessage_to_bytes(ack_of(id)) : id \in Uuids}

\* C9: whenever the one reply connect_to reads is not a HandshakeAck with
\* accepted = true, connect_to returns an error (InvalidPayload for a rejecting
\* ack or another message type, the decode error for an undecodable reply) and
\* the caller's registry gets no entry.
C9_ConnectToFailsOnAnyOtherReply ==
    \A t \in Task :
        (/\ call[t].op = "connect_to"
         /\ call[t].reply # <<>>
         /\ call[t].reply \notin AcceptingAcks)
        => /\ call[t].result.tag = "Err"
           /\ call[t].pc = "done"
           /\ \A id \in DOMAIN connections[task_node(t)] :
                 connections[task_node(t)][id].stream # call[t].conn

\* C10: the sequence numbers one node hands out are 1, 2, 3, ... in the order
\* they are returned: strictly increasing from 1, none handed out twice, under
\* every interleaving of the callers.
C10_SequenceNumbersCountUp ==
    \A n \in Node :
        \A i \in 1..Len(assigned[n]) : assigned[n][i] = U64(i)

\* two calls were inside next_sequence together: the task that called second
\* took the lock first and got 1, the other got 2
C10_Witness ==
    /\ call["t1"].sequence = U64(2)
    /\ call["t2"].sequence = U64(1)
    /\ assigned["A"] = <<U64(1), U64(2)>>

(***************************************************************************)
(* Claims about locks (under SpecLocks).                                   *)
(***************************************************************************)
\* C11: no task holds the registry lock, the sequence-counter lock or the engine
\* lock while it is suspended on a socket read, write, accept or connect (on
\* any await): every lock is taken and released within one run of in-memory
\* operations, and a task holds at most one lock at a time.
C11_NoLockHeldAcrossAwait ==
    \A t \in LockTask :
        /\ (lk_running(t) /\ lk_event(t).kind = "await") => holds(t) = {}
        /\ ~lk_running(t) => holds(t) = {}
        /\ Cardinality(holds(t)) <= 1

\* one task is suspended on write_all in handle_connection, after its insert,
\* while the other holds the registry lock inside send_message_to_peer
C11_Witness ==
    /\ lk_prog["k1"] = handle_connection_handshake_events
    /\ lk_running("k1")
    /\ lk_event("k1") = await("write_all")
    /\ lk_prog["k2"] = send_events
    /\ lk_holder["connections"] = "k2"

(***************************************************************************)
(* Claims about the secure node (SpecSecure).                              *)
(***************************************************************************)
\* the certificate's validity window includes / has ended before the time `now`
in_window(cert, now) == u64_leq(cert.valid_from, now) /\ u64_leq(now, cert.valid_until)
lapsed(cert, now) == ~u64_leq(now, cert.valid_until)

\* the low capability bits of a certificate
cap_bits(cert) == BitsOf(cert.capabilities[2], 16)

\* the capability bit a payload kind needs, or -1 when it needs none
needed_bit(kind) ==
    CASE kind = "ForwardData" -> 0
      [] kind = "BackwardData" -> 1
      [] kind = "HebbianData" -> 2
      [] OTHER -> -1

lacks_needed(cert, kind) == needed_bit(kind) >= 0 /\ needed_bit(kind) \notin cap_bits(cert)

registered_cert(peer_id) == s_connections[peer_id].peer_certificate

\* C12: a send of ForwardData to a registered peer whose certificate lacks the
\* forward-propagation bit returns InsufficientCapabilities and writes no byte;
\* with the bit set and the window including the current time it returns Ok.
C12_ForwardDataNeedsForwardBit ==
    [][\A peer_id \in DOMAIN s_connections :
          send_secure_message(peer_id, "ForwardData") =>
              /\ 0 \notin cap_bits(registered_cert(peer_id)) =>
                    /\ s_call'.result = Err("InsufficientCapabilities")
                    /\ s_wire' = s_wire
              /\ (/\ 0 \in cap_bits(registered_cert(peer_id))
                  /\ in_window(registered_cert(peer_id), s_now)) =>
                    s_call'.result = Ok(<<>>)]_vars

C12_Witness ==
    /\ s_call.op = "send_secure_message" /\ s_call.kind = "ForwardData"
    /\ s_call.peer_id = CERT_BACK_ONLY.network_id
    /\ s_call.peer_id \in DOMAIN s_connections
    /\ registered_cert(s_call.peer_id) = CERT_BACK_ONLY
    /\ s_call.result = Err("InsufficientCapabilities")
    /\ s_wire = <<>>

\* C13 as stated: a send to a registered peer whose certificate's window has
\* ended before the current time returns CertificateExpired.
C13_LapsedIsCertificateExpired ==
    [][\A peer_id \in DOMAIN s_connections, kind \in PayloadKinds :
          (/\ send_secure_message(peer_id, kind)
           /\ lapsed(registered_cert(peer_id), s_now)) =>
              s_call'.result = Err("CertificateExpired")]_vars

\* C13: a send to a registered peer whose certificate's window does not include
\* the time of the send is refused, on every send: with InsufficientCapabilities
\* when the message needs a capability the certificate lacks, with
\* CertificateExpired otherwise.
C13_OutOfWindowIsRefusedOnEverySend ==
    [][\A peer_id \in DOMAIN s_connections, kind \in PayloadKinds :
          (/\ send_secure_message(peer_id, kind)
           /\ ~in_window(registered_cert(peer_id), s_now)) =>
              s_call'.result =
                  IF lacks_needed(registered_cert(peer_id), kind)
                  THEN Err("InsufficientCapabilities")
                  ELSE Err("CertificateExpired")]_vars

C13_Witness ==
    /\ s_call.op = "send_secure_message"
    /\ s_call.result = Err("CertificateExpired")
    /\ s_call.prev.peer_id = s_call.peer_id
    /\ s_call.prev.result = Ok(<<>>)
    /\ s_call.peer_id \in DOMAIN s_connections
    /\ lapsed(registered_cert(s_call.peer_id), s_call.at)
    /\ in_window(registered_cert(s_call.peer_id), s_call.prev.at)

\* C14: a send that is refused with InsufficientCapabilities or CertificateExpired
\* leaves the registry as it was, the peer's entry included, and the send after
\* it is decided by the registry and the clock of its own time.
C14_RefusedSendKeepsEntry ==
    [][\A peer_id \in Uuids, kind \in PayloadKinds :
          (/\ send_secure_message(peer_id, kind)
           /\ s_call'.result \in {Err("InsufficientCapabilities"),
                                  Err("CertificateExpired")}) =>
              /\ s_connections' = s_connections
              /\ peer_id \in DOMAIN s_connections'
              /\ s_call.op = "send_secure_message" =>
                    s_call'.result =
                        IF lacks_needed(registered_cert(peer_id), kind)
                        THEN Err("InsufficientCapabilities")
                        ELSE Err("CertificateExpired")]_vars

C14_Witness ==
    /\ s_call.op = "send_secure_message"
    /\ s_call.result = Ok(<<>>)
    /\ s_call.prev.peer_id = s_call.peer_id
    /\ s_call.prev.result \in {Err("InsufficientCapabilities"),
                               Err("CertificateExpired")}
    /\ s_call.peer_id \in DOMAIN s_connections

\* the connect attempt fails before the TLS session exists
connect_fails(remote) == ~remote.reachable \/ ~remote.name_ok \/ ~remote.tls_ok

connect_to_secure_step ==
    \/ connect_to_secure_tcp
    \/ connect_to_secure_tls
    \/ \E id \in FreshUuids : connect_to_secure_store(id)

\* C15: when the TCP connect, the server-name conversion or the TLS handshake of
\* connect_to_secure fails, the call returns an error, and no step of it touches
\* the registry, the sequence counter or the wire.
C15_FailedConnectLeavesNoTrace ==
    /\ [](( /\ s_call.op = "connect_to_secure" /\ s_call.pc = "done"
            /\ connect_fails(s_call.remote)) =>
              s_call.result = IF ~s_call.remote.reachable THEN Err("IoError")
                              ELSE Err("TlsError"))
    /\ [][(connect_to_secure_step /\ connect_fails(s_call.remote)) =>
              /\ s_connections' = s_connections
              /\ s_sequence_counter' = s_sequence_counter
              /\ s_wire' = s_wire]_vars

C15_Witness ==
    /\ s_call.op = "connect_to_secure" /\ s_call.pc = "done"
    /\ s_call.remote.reachable /\ s_call.remote.name_ok /\ ~s_call.remote.tls_ok
    /\ s_call.result = Err("TlsError")
    /\ s_sequence_counter = U64(0)
    /\ s_connections = <<>>

\* C16: a peer whose certificate's window excludes the current time is rejected,
\* on accept (its connection is never handled) and on connect (the call fails and
\* stores no entry).
C16_OutOfWindowPeerIsRejected ==
    /\ s_acc.stage \in {"handle", "handled"} =>
          in_window(s_acc.remote.cert, s_acc.at)
    /\ (/\ s_call.op = "connect_to_secure" /\ s_call.pc = "done"
        /\ s_call.remote.reachable /\ s_call.remote.name_ok
        /\ ~in_window(s_call.remote.cert, s_call.at)) =>
          s_call.result.tag = "Err"

(***************************************************************************)
(* Claims about the header checks of from_bytes (SpecCodec).               *)
(***************************************************************************)
magic_ok(b) == SubSeq(b, 1, 4) = PROTOCOL_MAGIC
\* the declared payload length and the number of bytes after the header, both as
\* four big-endian bytes
declared_length(b) == SubSeq(b, 7, 10)
carried_length(b) == write_u32(usize_as_u32(Len(b) - HEADER_SIZE))
checksum_ok(b) ==
    SubSeq(b, 19, 22) = write_u32(crc32(SubSeq(b, HEADER_SIZE + 1, Len(b))))

\* C17: a buffer of at least 22 bytes whose first four bytes are not the magic
\* constant decodes to InvalidMagic, whatever the rest of it is.
C17_WrongMagicIsInvalidMagic ==
    (c_phase = "decoded" /\ Len(c_buf) >= HEADER_SIZE /\ ~magic_ok(c_buf)) =>
        c_res = Err("InvalidMagic")

\* wrong magic together with a wrong version, a wrong declared length and a bad
\* checksum
C17_Witness ==
    /\ c_phase = "decoded" /\ c_how = "tampered"
    /\ Len(c_buf) >= HEADER_SIZE
    /\ ~magic_ok(c_buf)
    /\ c_buf[5] # PROTOCOL_VERSION
    /\ declared_length(c_buf) # carried_length(c_buf)
    /\ ~checksum_ok(c_buf)
    /\ c_res = Err("InvalidMagic")

\* C18: a buffer of at least 22 bytes with the magic constant and a version byte
\* other than 1 decodes to UnsupportedVersion, whatever its declared length,
\* checksum and payload are.
C18_WrongVersionIsUnsupportedVersion ==
    (/\ c_phase = "decoded" /\ Len(c_buf) >= HEADER_SIZE
     /\ magic_ok(c_buf) /\ c_buf[5] # PROTOCOL_VERSION) =>
        c_res = Err("UnsupportedVersion")

C18_Witness ==
    /\ c_phase = "decoded" /\ c_how = "tampered"
    /\ Len(c_buf) >= HEADER_SIZE
    /\ magic_ok(c_buf)
    /\ c_buf[5] = 2
    /\ declared_length(c_buf) # carried_length(c_buf)
    /\ ~checksum_ok(c_buf)
    /\ c_res = Err("UnsupportedVersion")

\* C19: a buffer with the magic constant and version 1 that carries fewer or more
\* bytes after the header than the header declares decodes to InvalidLength,
\* whether or not the checksum matches the carried bytes and whatever the type
\* code and the payload are.
C19_LengthMismatchIsInvalidLength ==
    (/\ c_phase = "decoded" /\ Len(c_buf) >= HEADER_SIZE
     /\ magic_ok(c_buf) /\ c_buf[5] = PROTOCOL_VERSION
     /\ declared_length(c_buf) # carried_length(c_buf)) =>
        c_res = Err("InvalidLength")

\* more bytes carried than declared, under a checksum that does not match them
C19_Witness ==
    /\ c_phase = "decoded" /\ c_how = "tampered"
    /\ magic_ok(c_buf) /\ c_buf[5] = PROTOCOL_VERSION
    /\ declared_length(c_buf) = <<0, 0, 0, 0>> /\ Len(c_buf) > HEADER_SIZE
    /\ ~checksum_ok(c_buf)
    /\ c_res = Err("InvalidLength")

\* C20: every ForwardData message decodes from its encoding to Ok with the same
\* layer id, the same sequence number and the same values in the same order.
C20_ForwardDataRoundTrip ==
    (c_phase = "decoded" /\ c_how = "encoded" /\ c_msg.msg_type = "ForwardData") =>
        /\ c_res.tag = "Ok"
        /\ c_res.val.msg_type = "ForwardData"
        /\ c_res.val.sequence = c_msg.sequence
        /\ c_res.val.payload.kind = "ForwardData"
        /\ c_res.val.payload.layer_id = c_msg.payload.layer_id
        /\ c_res.val.payload.data = c_msg.payload.data

\* layer 0, values 0.5 and 0.8, sequence 1
C20_Witness ==
    /\ c_phase = "decoded" /\ c_how = "encoded"
    /\ c_msg.msg_type = "ForwardData"
    /\ c_msg.sequence = U64(1)
    /\ c_msg.payload.layer_id = 0
    /\ c_msg.payload.data = <<F32_LIST[1], F32_LIST[2]>>
    /\ c_res = Ok(c_msg)

(***************************************************************************)
(* Claims about the layout of to_bytes (SpecCodec).                        *)
(***************************************************************************)
\* the two bytes of a 16-bit word, high byte first
be16(w) == <<w \div 256, w % 256>>

\* C21: to_bytes(m) is 22 + (payload length) bytes: the magic at offset 0, version
\* 1 at offset 4, the type code at 5, the payload length big-endian at 6..10, the
\* sequence number big-endian at 10..18, the CRC32 of the payload bytes
\* big-endian at 18..22, then the payload; and decoding it never fails with
\* InvalidMagic, UnsupportedVersion, InvalidLength or ChecksumMismatch.
C21_ToBytesLayout ==
    (c_phase \in {"encoded", "decoded"} /\ c_how = "encoded") =>
        LET payload_bytes == MessagePayload_to_bytes(c_msg.payload)
            n == Len(payload_bytes)
            checksum == crc32(payload_bytes)
        IN  /\ Len(c_buf) = 22 + n
            /\ SubSeq(c_buf, 1, 4) = <<78, 78, 80, 0>>
            /\ c_buf[5] = 1
            /\ c_buf[6] = MessageType_as_u8(c_msg.msg_type)
            /\ SubSeq(c_buf, 7, 10) = <<0, 0>> \o be16(n)
            /\ SubSeq(c_buf, 11, 18) =
                  be16(c_msg.sequence[1]) \o be16(c_msg.sequence[2])
                      \o be16(c_msg.sequence[3]) \o be16(c_msg.sequence[4])
            /\ SubSeq(c_buf, 19, 22) = be16(checksum[1]) \o be16(checksum[2])
            /\ SubSeq(c_buf, 23, Len(c_buf)) = payload_bytes
            /\ c_phase = "decoded" =>
                  c_res \notin {Err("InvalidMagic"), Err("UnsupportedVersion"),
                                Err("InvalidLength"), Err("ChecksumMismatch")}

\* a message with a payload of more than 255 bytes was encoded and decoded
C21_Witness ==
    /\ c_phase = "decoded" /\ c_how = "encoded"
    /\ Len(c_buf) > HEADER_SIZE + 255
    /\ SubSeq(c_buf, 7, 10) = <<0, 0, 1, 0>>
    /\ c_res \notin {Err("InvalidMagic"), Err("UnsupportedVersion"),
                     Err("InvalidLength"), Err("ChecksumMismatch")}

(***************************************************************************)
(* Claims about NetworkCertificate (SpecCert).                             *)
(***************************************************************************)
\* a 64-bit value is before another: the first 16-bit word in which they differ
\* is smaller
RECURSIVE before(_, _)
before(a, b) ==
    IF a = <<>> THEN FALSE
    ELSE IF Head(a) # Head(b) THEN Head(a) < Head(b)
    ELSE before(Tail(a), Tail(b))

\* C22: is_valid returns true exactly when valid_from <= now <= valid_until, both
\* ends included.
C22_IsValidIffInWindow ==
    (k_phase = "applied" /\ k_fn = "is_valid") =>
        (k_res <=> (~before(k_now, k_cert.valid_from)
                    /\ ~before(k_cert.valid_until, k_now)))

\* now is the last second of the window, and the certificate is valid
C22_Witness ==
    /\ k_phase = "applied" /\ k_fn = "is_valid"
    /\ k_cert.valid_until = k_now
    /\ before(k_cert.valid_from, k_now)
    /\ k_res = TRUE

\* the set bits of a u32, numbered from 0
bits32(v) ==
    {i \in 0..15 : (v[2] \div Pow2(i)) % 2 = 1}
        \cup {16 + i : i \in {j \in 0..15 : (v[1] \div Pow2(j)) % 2 = 1}}

\* C23: has_capability(c) is true exactly when the certificate's flags and c share
\* a set bit; for a single-bit c, exactly when that bit is set in the flags.
C23_HasCapabilityIffSharedBit ==
    (k_phase = "applied" /\ k_fn = "has_capability") =>
        /\ k_res <=> (bits32(k_cert.capabilities) \cap bits32(k_capability) # {})
        /\ \A i \in 0..7 :
              k_capability = <<0, Pow2(i)>> =>
                  (k_res <=> i \in bits32(k_cert.capabilities))

\* flags forward|hebbian asked for backpropagation|forward: one shared bit of two
C23_Witness ==
    /\ k_phase = "applied" /\ k_fn = "has_capability"
    /\ k_cert.capabilities = <<0, 5>>
    /\ k_capability = <<0, 3>>
    /\ k_res = TRUE

(***************************************************************************)
(* The accepted connection of SpecConn: what its task has decoded, what it *)
(* has written back and what it has put on the engine queue.               *)
(***************************************************************************)
\* the messages of one kind in a sequence of messages, in order
of_kind(msgs, kind) == SelectSeq(msgs, LAMBDA m : m.payload.kind = kind)

\* the length of an encoded HandshakeAck
ACK_LEN == HEADER_SIZE + 17

\* the k-th frame the task of connection c has written back
written_ack(c, k) == SubSeq(stream[c].s2c, (k - 1) * ACK_LEN + 1, k * ACK_LEN)

\* how many frames the task of connection c has written back
written_acks(c) == Len(stream[c].s2c) \div ACK_LEN

\* frame is a HandshakeAck that accepts and carries the id of node n
accepts_as(frame, n) ==
    /\ frame[6] = MessageType_as_u8("HandshakeAck")
    /\ SubSeq(frame, HEADER_SIZE + 1, HEADER_SIZE + 16) = Uuid_as_bytes(node_id[n])
    /\ frame[HEADER_SIZE + 17] = 1

\* every frame the foreign client has written so far is a Handshake
only_handshakes_written(c) ==
    /\ stream[c].client = RAW
    /\ stream[c].raw_frames = Len(stream[c].advertised)

\* C24: for a decoded Handshake the accepting task first inserts the registry
\* entry keyed by the id the peer advertised, then writes a HandshakeAck with
\* accepted = true that carries the acceptor's own id, and only then puts the
\* Handshake on the engine queue; no acknowledgment written refuses.
C24_InsertThenAckThenQueue ==
    \A c \in Conn :
        stream[c].server \in Node =>
            LET n == stream[c].server
                handshakes == Len(of_kind(hc[c].decoded, "Handshake"))
                queued == Len(of_kind(queue[n], "Handshake"))
            IN
            /\ \A k \in 1..written_acks(c) : accepts_as(written_ack(c, k), n)
            /\ queued <= written_acks(c)
            /\ hc[c].pc = "write_ack" =>
                    /\ written_acks(c) = handshakes - 1
                    /\ queued = handshakes - 1
            /\ (only_handshakes_written(c) /\ handshakes > 0) =>
                    stream[c].advertised[handshakes] \in DOMAIN connections[n]

\* the same order, with the entry looked up under the id as the task decoded it
order_under_decoded_id ==
    \A c \in Conn :
        stream[c].server \in Node =>
            LET n == stream[c].server
                handshakes == Len(of_kind(hc[c].decoded, "Handshake"))
                queued == Len(of_kind(queue[n], "Handshake"))
            IN
            /\ \A k \in 1..written_acks(c) : accepts_as(written_ack(c, k), n)
            /\ queued <= written_acks(c)
            /\ hc[c].pc = "write_ack" =>
                    /\ written_acks(c) = handshakes - 1
                    /\ queued = handshakes - 1
            /\ \A k \in 1..handshakes :
                    of_kind(hc[c].decoded, "Handshake")[k].payload.network_id
                        \in DOMAIN connections[n]

\* C25: after the acceptor has processed a Handshake that advertises the
\* capability flags C, the registry entry for that peer records C as the peer's
\* capabilities.  (The entry is looked up under the id as decoded, so that the
\* formula speaks of the flags alone.)
C25_EntryRecordsAdvertisedCapabilities ==
    \A c \in Conn :
        stream[c].server \in Node =>
            LET n == stream[c].server
                handshakes == of_kind(hc[c].decoded, "Handshake")
            IN
            \A k \in 1..Len(handshakes) :
                LET peer == handshakes[k].payload.network_id IN
                /\ peer \in DOMAIN connections[n]
                /\ connections[n][peer].capabilities = handshakes[k].payload.capabilities

\* the task of connection c stands between two frames, or has ended
between_frames(c) == hc[c].pc \in {"read_header"} \cup Exited

\* C26 as stated: whenever the task stands between two frames or has ended, the
\* engine queue holds every message decoded on the connection, Handshakes
\* included, once each, unmodified and in arrival order.
C26_EveryDecodedMessageQueued ==
    \A c \in Conn :
        (stream[c].server \in Node /\ between_frames(c)) =>
            queue[stream[c].server] = hc[c].decoded

\* C26, amended: the queue is always the decoded messages in arrival order, once
\* each and unmodified, short of at most the latest one; the latest is missing
\* only while its acknowledgment is still to be written, after the task ended on
\* a failed write of that acknowledgment, or after the task ended because the
\* receiver of the queue was gone.  Nothing takes messages off the queue in this
\* specification, so no message is handed over after a wait for the consumer.
C26_DecodedQueuedUnlessAckFailsOrReceiverGone ==
    \A c \in Conn :
        stream[c].server \in Node =>
            LET n == stream[c].server
                decoded == hc[c].decoded
                missing == Len(decoded) - Len(queue[n])
            IN
            /\ missing \in {0, 1}
            /\ queue[n] = SubSeq(decoded, 1, Len(queue[n]))
            /\ missing = 1 =>
                   \/ /\ hc[c].pc = "write_ack"
                      /\ decoded[Len(decoded)].payload.kind = "Handshake"
                   \/ /\ hc[c].pc = "done_err" /\ hc[c].last = "IoError"
                      /\ decoded[Len(decoded)].payload.kind = "Handshake"
                      /\ ~stream[c].client_open
                   \/ /\ hc[c].pc = "done_ok" /\ hc[c].last = "SendFailed"
                      /\ ~receiver_alive[n]

\* three messages, a Handshake among them, stand on the queue in arrival order
\* and nothing has consumed any
C26_Witness ==
    \E c \in Conn :
        /\ stream[c].server \in Node
        /\ hc[c].pc = "read_header"
        /\ Len(hc[c].decoded) = 3
        /\ queue[stream[c].server] = hc[c].decoded
        /\ hc[c].decoded[1].payload.kind = "Handshake"
        /\ hc[c].decoded[3].payload.kind = "ForwardData"

\* C26 as stated, while the receiver of the queue is kept
decoded_queued_while_received ==
    \A c \in Conn :
        (stream[c].server \in Node /\ between_frames(c)
            /\ receiver_alive[stream[c].server]) =>
            queue[stream[c].server] = hc[c].decoded

\* C27: a Handshake decoded on an already established connection is processed
\* like the first: an entry is inserted under the id it advertises (replacing the
\* entry of that id, adding a second entry when the id differs from the first
\* handshake's) and another HandshakeAck with accepted = true is written.
C27_SecondHandshakeProcessedLikeFirst ==
    \A c \in Conn :
        LET n == stream[c].server
            handshakes == Len(of_kind(hc[c].decoded, "Handshake"))
        IN
        (n \in Node /\ only_handshakes_written(c) /\ handshakes >= 2) =>
            /\ DOMAIN connections[n] = {stream[c].advertised[k] : k \in 1..handshakes}
            /\ hc[c].pc \in {"read_header", "done_ok"} =>
                    /\ written_acks(c) = handshakes
                    /\ \A k \in 1..handshakes : accepts_as(written_ack(c, k), n)

\* the same, with the entries looked up under the ids as the task decoded them
second_handshake_under_decoded_id ==
    \A c \in Conn :
        LET n == stream[c].server
            handshakes == of_kind(hc[c].decoded, "Handshake")
        IN
        (n \in Node /\ Len(handshakes) >= 2) =>
            /\ DOMAIN connections[n] =
                   {handshakes[k].payload.network_id : k \in 1..Len(handshakes)}
            /\ hc[c].pc \in {"read_header", "done_ok"} =>
                    /\ written_acks(c) = Len(handshakes)
                    /\ \A k \in 1..Len(handshakes) : accepts_as(written_ack(c, k), n)

\* two Handshakes under different ids were decoded and acknowledged on one
\* connection, and the registry has two entries
two_handshakes_two_entries ==
    \E c \in Conn :
        /\ stream[c].server \in Node
        /\ Len(of_kind(hc[c].decoded, "Handshake")) = 2
        /\ written_acks(c) = 2
        /\ Cardinality(DOMAIN connections[stream[c].server]) = 2

\* C28: a header whose first four bytes are not the magic constant does not end
\* the connection: the step that reads it forwards nothing, leaves the registry
\* unchanged, writes no reply, and leaves the task at the next header read with
\* its stream open.
C28_BadMagicIsSkipped ==
    [][\A c \in Conn :
          (/\ handle_connection_read_header(c)
           /\ can_read(stream[c].c2s, HEADER_SIZE)
           /\ SubSeq(stream[c].c2s, 1, 4) # PROTOCOL_MAGIC) =>
              /\ queue' = queue
              /\ connections' = connections
              /\ stream'[c].s2c = stream[c].s2c
              /\ hc'[c].decoded = hc[c].decoded
              /\ hc'[c].pc = "read_header"
              /\ stream'[c].server_open
              /\ stream'[c].c2s = SubSeq(stream[c].c2s, HEADER_SIZE + 1, Len(stream[c].c2s))]_vars

\* a header was skipped for its magic number, and the frame after it was decoded
\* and queued on the same connection
C28_Witness ==
    \E c \in Conn :
        /\ stream[c].server \in Node
        /\ hc[c].skipped = 1
        /\ hc[c].last = "Ok"
        /\ hc[c].pc = "read_header"
        /\ Len(hc[c].decoded) = 1
        /\ queue[stream[c].server] = hc[c].decoded
        /\ stream[c].s2c = <<>>
        /\ connections[stream[c].server] = <<>>

\* the task of connection c has ended at the end of the stream, without error
closed_in_order(c) == hc[c].pc = "done_ok" /\ hc[c].last = "Eof"

\* C29: when the stream ends where a header is expected, the task ends its loop
\* and exits without error, touching neither the registry nor the queue; and
\* after such an exit the entry of every Handshake decoded on the connection is
\* still in the registry.
C29_OrderlyCloseKeepsEntry ==
    /\ [](\A c \in Conn :
            (stream[c].server \in Node /\ closed_in_order(c)) =>
                /\ ~stream[c].server_open
                /\ \A k \in 1..Len(of_kind(hc[c].decoded, "Handshake")) :
                       of_kind(hc[c].decoded, "Handshake")[k].payload.network_id
                           \in DOMAIN connections[stream[c].server])
    /\ [][\A c \in Conn :
            (/\ handle_connection_read_header(c)
             /\ read_eof(stream[c].c2s, HEADER_SIZE, stream[c].client_open)) =>
                /\ closed_in_order(c)'
                /\ connections' = connections
                /\ queue' = queue]_vars

\* the peer sent a Handshake and closed; the task has exited without error and
\* the entry is in the registry
C29_Witness ==
    \E c \in Conn :
        /\ stream[c].server \in Node
        /\ closed_in_order(c)
        /\ ~stream[c].client_open
        /\ Len(of_kind(hc[c].decoded, "Handshake")) = 1
        /\ hc[c].decoded[1].payload.network_id \in DOMAIN connections[stream[c].server]

\* the sequence field of a frame, and the fields node n's counter has given out
sequence_field(frame) == SubSeq(frame, 11, 18)
given_out(n) == {write_u64(assigned[n][i]) : i \in 1..Len(assigned[n])}

\* C30: every outbound message of a node, the HandshakeAck of the accept path
\* included, carries a sequence number obtained by incrementing the node's
\* shared counter and then reading it.
C30_EveryOutboundSequenceFromCounter ==
    /\ \A t \in Task :
           call[t].wrote # <<>> =>
               sequence_field(call[t].wrote) \in given_out(task_node(t))
    /\ \A c \in Conn :
           (stream[c].server \in Node /\ stream[c].s2c # <<>>
               /\ Len(stream[c].s2c) % ACK_LEN = 0) =>
               \A k \in 1..written_acks(c) :
                   sequence_field(written_ack(c, k)) \in given_out(stream[c].server)

\* the part of C30 that is about the calls of a node
caller_sequences_from_counter ==
    \A t \in Task :
        call[t].wrote # <<>> =>
            sequence_field(call[t].wrote) \in given_out(task_node(t))

(***************************************************************************)
(* Claims about handle_message and the sequence counter.                   *)
(***************************************************************************)
\* C31: handle_message applied to a Heartbeat updates the liveness bookkeeping:
\* the last_heartbeat recorded in the registry for the sending peer changes.
C31_HeartbeatUpdatesLastHeartbeat ==
    [][\A n \in Node :
          (/\ handle_message(n)
           /\ next_message(n).payload.kind = "Heartbeat"
           /\ DOMAIN connections[n] # {}) =>
              \E peer \in DOMAIN connections[n] :
                  connections'[n][peer].last_heartbeat
                      # connections[n][peer].last_heartbeat]_vars

(***************************************************************************)
(* Claims about the order of the checks of from_bytes (SpecCodec).         *)
(***************************************************************************)
\* the errors of the header checks
HeaderErrors ==
    {Err("InvalidLength"), Err("InvalidMagic"), Err("UnsupportedVersion"),
     Err("ChecksumMismatch")}

\* C32: from_bytes checks, in this order, (a) at least 22 bytes, (b) the magic,
\* (c) the version, (d) declared length = bytes after the header, (e) the
\* checksum, (f) the payload by type code, and returns the error of the first
\* check that fails: a buffer below 22 bytes gives InvalidLength whatever it
\* holds, a wrong version with a wrong length gives UnsupportedVersion.
C32_FirstFailingCheckDecides ==
    c_phase = "decoded" =>
        IF Len(c_buf) < HEADER_SIZE THEN c_res = Err("InvalidLength")
        ELSE IF ~magic_ok(c_buf) THEN c_res = Err("InvalidMagic")
        ELSE IF c_buf[5] # PROTOCOL_VERSION THEN c_res = Err("UnsupportedVersion")
        ELSE IF declared_length(c_buf) # carried_length(c_buf)
             THEN c_res = Err("InvalidLength")
        ELSE IF ~checksum_ok(c_buf) THEN c_res = Err("ChecksumMismatch")
        ELSE c_res \notin HeaderErrors

\* 21 bytes that do not begin with the magic constant: InvalidLength
C32_Witness ==
    /\ c_phase = "decoded" /\ c_how = "truncated"
    /\ Len(c_buf) = HEADER_SIZE - 1
    /\ SubSeq(c_buf, 1, 4) # PROTOCOL_MAGIC
    /\ c_buf[5] # PROTOCOL_VERSION
    /\ c_res = Err("InvalidLength")

\* the magic constant, version 0 and a declared length that is not the carried
\* one: UnsupportedVersion
wrong_version_and_length ==
    /\ c_phase = "decoded" /\ c_how = "tampered"
    /\ magic_ok(c_buf) /\ c_buf[5] = 0
    /\ declared_length(c_buf) # carried_length(c_buf)
    /\ c_res = Err("UnsupportedVersion")

\* the type codes MessagePayload::from_bytes has a decoder for
DecodedCodes == {1, 2, 16, 17, 18, 32}

\* the five header checks pass on buffer b
header_checks_pass(b) ==
    /\ Len(b) >= HEADER_SIZE
    /\ magic_ok(b)
    /\ b[5] = PROTOCOL_VERSION
    /\ declared_length(b) = carried_length(b)
    /\ checksum_ok(b)

\* C33: a frame that passes the header, length and checksum checks and whose
\* type code has no payload decoder (WeightSync 0x13, Disconnect 0x21, Error
\* 0xFF, or a code outside the defined set) decodes to UnsupportedMessageType,
\* whatever its payload bytes are.
C33_NoDecoderIsUnsupportedMessageType ==
    (c_phase = "decoded" /\ header_checks_pass(c_buf) /\ c_buf[6] \notin DecodedCodes) =>
        c_res = Err("UnsupportedMessageType")

\* a code outside the defined set over the eight bytes of a Heartbeat payload
C33_Witness ==
    /\ c_phase = "decoded" /\ c_how = "forged"
    /\ header_checks_pass(c_buf)
    /\ c_buf[6] = 99
    /\ Len(c_buf) = HEADER_SIZE + 8
    /\ c_res = Err("UnsupportedMessageType")

(***************************************************************************)
(* Further claims about send_secure_message and connect_to_secure          *)
(* (SpecSecure).                                                           *)
(***************************************************************************)
\* C34: send_secure_message asks for the forward-propagation capability for
\* ForwardData, backpropagation for BackwardData and Hebbian learning for
\* HebbianData, and for none for any other payload kind: such a message to a
\* registered peer is refused only when the certificate is outside its window.
C34_CapabilityPerPayloadKind ==
    [][\A peer_id \in DOMAIN s_connections, kind \in PayloadKinds :
          send_secure_message(peer_id, kind) =>
              LET cert == registered_cert(peer_id)
                  refused == s_call'.result = Err("InsufficientCapabilities")
              IN
              /\ kind = "ForwardData" => (refused <=> 0 \notin cap_bits(cert))
              /\ kind = "BackwardData" => (refused <=> 1 \notin cap_bits(cert))
              /\ kind = "HebbianData" => (refused <=> 2 \notin cap_bits(cert))
              /\ kind \notin {"ForwardData", "BackwardData", "HebbianData"} =>
                    s_call'.result = IF in_window(cert, s_now)
                                      THEN Ok(<<>>)
                                      ELSE Err("CertificateExpired")]_vars

\* a Disconnect to a peer whose certificate has the backpropagation bit alone
\* was sent
C34_Witness ==
    /\ s_call.op = "send_secure_message" /\ s_call.kind = "Disconnect"
    /\ s_call.peer_id \in DOMAIN s_connections
    /\ registered_cert(s_call.peer_id) = CERT_BACK_ONLY
    /\ s_call.result = Ok(<<>>)

\* C35: in the secure variant the Handshake/HandshakeAck exchange still takes
\* place after the TLS handshake: connect_to_secure inserts a registry entry
\* only after it has sent a Handshake over the TLS stream (and received an
\* accepting HandshakeAck); so the frame of a Handshake is on the wire when the
\* entry is inserted.
C35_EntryOnlyAfterHandshakeExchange ==
    [][\A id \in FreshUuids :
          (connect_to_secure_store(id) /\ s_connections' # s_connections) =>
              /\ Len(s_wire) >= HEADER_SIZE
              /\ s_wire[6] = MessageType_as_u8("Handshake")]_vars

(***************************************************************************)
(* Claims about the read loop after a skipped header (SpecConn).           *)
(***************************************************************************)
\* how many bytes of the peer's stream the task of connection c has taken
consumed(c) == stream[c].written - Len(stream[c].c2s)

\* C36 as stated: once the header of a frame without the magic number and with
\* a payload has been read and skipped, a well-formed frame that follows it is
\* not read at its frame boundary.
C36_FrameAfterBadMagicNeverReadAtBoundary ==
    \A c \in Conn :
        \A f \in stream[c].bad_frames :
            (f[1] \in hc[c].read_at /\ f[2] \in stream[c].well_formed) =>
                f[2] \notin hc[c].read_at

\* C36, amended: a skip for a wrong magic takes exactly the 22 header bytes and
\* the next read is a header read that starts at the first payload byte; the
\* frame that follows is read at its boundary only if header reads that start in
\* the skipped frame's payload end exactly there, which takes a payload of at
\* least 22 bytes.
C36_SkipTakesHeaderOnly ==
    /\ [](\A c \in Conn :
            \A f \in stream[c].bad_frames :
                (f[1] \in hc[c].read_at /\ f[2] \in hc[c].read_at) =>
                    /\ f[2] - f[1] >= 2 * HEADER_SIZE
                    /\ f[1] + HEADER_SIZE \in hc[c].read_at)
    /\ [][\A c \in Conn :
            (/\ handle_connection_read_header(c)
             /\ can_read(stream[c].c2s, HEADER_SIZE)
             /\ SubSeq(stream[c].c2s, 1, 4) # PROTOCOL_MAGIC) =>
                /\ consumed(c)' = consumed(c) + HEADER_SIZE
                /\ hc'[c].pc = "read_header"]_vars

\* a frame without the magic number and with 8 payload bytes, then a Heartbeat:
\* the second header read took the payload and the start of the Heartbeat, and
\* the Heartbeat was never decoded
C36_Witness ==
    \E c \in Conn :
        /\ stream[c].bad_frames = {<<0, HEADER_SIZE + 8>>}
        /\ stream[c].starts = {0, HEADER_SIZE + 8}
        /\ hc[c].read_at = {0, HEADER_SIZE}
        /\ consumed(c) = 2 * HEADER_SIZE
        /\ hc[c].decoded = <<>>

(***************************************************************************)
(* Claims about the sequence counter and the registry under concurrency    *)
(* (Spec).                                                                 *)
(***************************************************************************)
\* the calls of node n that have incremented the counter and not yet read it
reading(n) == {t \in Task : task_node(t) = n /\ call[t].pc = "seq_read"}

\* call t is past next_sequence
past_next_sequence(t) ==
    call[t].pc \in {"write_handshake", "read_header", "read_payload", "send_lock"}
        \/ (call[t].pc = "done" /\ (call[t].op \in SendOps \/ call[t].conn # 0))

\* C37: each call to send_forward_data or send_hebbian_data, and each connect_to
\* whose TCP connection opens, advances the node's sequence counter by exactly
\* one, also when the peer named has no registry entry and nothing is sent; the
\* accept path and handle_message never change the counter.
C37_OneIncrementPerCall ==
    /\ [](/\ \A n \in Node :
               sequence_counter[n] = U64(Len(assigned[n]) + Cardinality(reading(n)))
          /\ \A t \in Task :
               past_next_sequence(t) =>
                   Cardinality({i \in 1..Len(assigned[task_node(t)]) :
                                   assigned[task_node(t)][i] = call[t].sequence}) = 1)
    /\ [][/\ \A t \in Task :
               (send_begin(t) \/ (connect_to_begin(t) /\ call'[t].conn # 0)) =>
                   call'[t].pc = "seq_lock"
          /\ \A t \in Task :
               (call[t].pc # "seq_lock" /\ call'[t].pc = "seq_lock") =>
                   (send_begin(t) \/ connect_to_begin(t))
          /\ ((\E c \in Conn : HandlerNext(c)) \/ (\E n \in Node : handle_message(n))) =>
               sequence_counter' = sequence_counter]_vars

\* a send to a peer without a registry entry has returned, and the counter of
\* the caller's node stands at one
C37_Witness ==
    \E t \in Task :
        /\ call[t].op \in SendOps /\ call[t].pc = "done"
        /\ ~call[t].found
        /\ call[t].sequence = U64(1)
        /\ sequence_counter[task_node(t)] = U64(1)
        /\ assigned[task_node(t)] = <<U64(1)>>

(***************************************************************************)
(* SpecRegistry: node A both listens and calls.  A foreign client is       *)
(* connected to it from the start; a second one may connect, or task t1    *)
(* makes one call, so that connection tasks and connect_to run against     *)
(* the registry of one node in every order of their steps.                 *)
(***************************************************************************)
RegistryInit ==
    /\ node_id = [n \in Node |-> IF n = "A" THEN UUID_A ELSE UUID_B]
    /\ listening = [n \in Node |-> n = "A"]
    /\ connections = [n \in Node |-> <<>>]
    /\ sequence_counter = [n \in Node |-> U64(0)]
    /\ seq_lock = [n \in Node |-> Free]
    /\ queue = [n \in Node |-> <<>>]
    /\ receiver_alive = [n \in Node |-> TRUE]
    /\ stream = [c \in Conn |-> IF c = 1 THEN open_stream(RAW, "A") ELSE NoStream]
    /\ hc = [c \in Conn |-> NoHandler]
    /\ call = [t \in Task |-> NoCall]
    /\ assigned = [n \in Node |-> <<>>]
    /\ CodecParked /\ LockParked /\ SecureParked /\ CertParked /\ EngineParked

\* what the foreign clients of node A write: a Handshake under one id, a Handshake
\* under another, or a Handshake cut short
RegistryFrames == {RAW_HANDSHAKE, RAW_HANDSHAKE_A, RAW_SHORT_HANDSHAKE}

registry_write(c) ==
    /\ raw_write_from(c, RegistryFrames, MaxRawFrames)
    /\ UNCHANGED <<codec_vars, aux_vars, node_id, listening, connections, sequence_counter,
                   seq_lock, queue, receiver_alive, hc, call, assigned>>

RegistryNext ==
    \/ raw_connect("A")
    \/ CallerNext("t1")
    \/ \E c \in Conn : HandlerNext(c)
    \/ \E c \in Conn : registry_write(c) \/ raw_close(c) \/ raw_reply(c) \/ raw_server_close(c)

SpecRegistry == RegistryInit /\ [][RegistryNext]_vars

\* the connection task of c stores the entry of a Handshake in this step
handler_inserts(c) ==
    /\ handle_connection_read_payload(c)
    /\ hc'[c].pc = "write_ack"

\* the connect_to call of task t stores the entry of its peer in this step
connect_to_inserts(t) ==
    /\ connect_to_read_payload(t)
    /\ call'[t].result.tag = "Ok"

\* the step turns registry `old` into `new` by one insertion under `key`:
\* `entry` stands under `key`, and every other entry is as it was
one_insertion(old, new, key, entry) ==
    /\ DOMAIN new = (DOMAIN old) \cup {key}
    /\ new[key] = entry
    /\ \A k \in (DOMAIN old) \ {key} : new[k] = old[k]

\* C38: no insertion into a node's registry is lost, whatever the order of the
\* steps of its connection tasks and its connect_to calls: a step that stores an
\* entry puts it under its peer id, replacing what stood under that id, and
\* keeps every other entry; no other step changes a registry; so the registry
\* holds one entry, keyed by its peer id, for every id a connection task decoded
\* from a Handshake and for every id a connect_to call returned.
C38_NoInsertionLost ==
    /\ [](/\ \A c \in Conn :
               stream[c].server \in Node =>
                   \A k \in 1..Len(of_kind(hc[c].decoded, "Handshake")) :
                       of_kind(hc[c].decoded, "Handshake")[k].payload.network_id
                           \in DOMAIN connections[stream[c].server]
          /\ \A t \in Task :
               (call[t].op = "connect_to" /\ call[t].pc = "done"
                /\ call[t].result.tag = "Ok") =>
                   call[t].result.val \in DOMAIN connections[task_node(t)]
          /\ \A n \in Node : \A k \in DOMAIN connections[n] :
               connections[n][k].peer_id = k)
    /\ [][/\ \A c \in Conn :
               handler_inserts(c) =>
                   LET n == stream[c].server
                       id == hc'[c].message.payload.network_id
                   IN  /\ one_insertion(connections[n], connections'[n], id,
                                        NetworkConnection(id, 0))
                       /\ \A o \in Node \ {n} : connections'[o] = connections[o]
          /\ \A t \in Task :
               connect_to_inserts(t) =>
                   LET n == task_node(t)
                       id == call'[t].result.val
                   IN  /\ one_insertion(connections[n], connections'[n], id,
                                        NetworkConnection(id, call[t].conn))
                       /\ \A o \in Node \ {n} : connections'[o] = connections[o]
          /\ connections' # connections =>
               \/ \E c \in Conn : handler_inserts(c)
               \/ \E t \in Task : connect_to_inserts(t)]_vars

\* a connection task of node A stored an entry under the id its Handshake
\* carried, a connect_to call of the same node then stored one under the same
\* id, and the registry holds one entry, that of the call
C38_Witness ==
    \E c \in Conn : \E t \in Task :
        /\ stream[c].server = task_node(t)
        /\ Len(of_kind(hc[c].decoded, "Handshake")) = 1
        /\ call[t].op = "connect_to" /\ call[t].pc = "done" /\ call[t].result.tag = "Ok"
        /\ call[t].result.val = of_kind(hc[c].decoded, "Handshake")[1].payload.network_id
        /\ Cardinality(DOMAIN connections[task_node(t)]) = 1
        /\ connections[task_node(t)][call[t].result.val].stream = call[t].conn
        /\ call[t].conn # 0

\* C39: a send to a registered peer whose certificate both lacks the capability
\* the message needs and does not include the time of the send in its window
\* returns InsufficientCapabilities: the capability is looked at first.  The
\* call writes nothing and leaves the registry as it was.
C39_CapabilityBeforeExpiry ==
    [][\A peer_id \in DOMAIN s_connections, kind \in PayloadKinds :
          (/\ send_secure_message(peer_id, kind)
           /\ lacks_needed(registered_cert(peer_id), kind)
           /\ ~in_window(registered_cert(peer_id), s_now)) =>
              /\ s_call'.result = Err("InsufficientCapabilities")
              /\ s_connections' = s_connections
              /\ s_wire' = s_wire]_vars

\* a ForwardData send to a peer whose certificate carries the backpropagation bit
\* alone and had lapsed when the send was made came back InsufficientCapabilities
C39_Witness ==
    /\ s_call.op = "send_secure_message" /\ s_call.kind = "ForwardData"
    /\ s_call.peer_id \in DOMAIN s_connections
    /\ registered_cert(s_call.peer_id) = CERT_BACK_ONLY
    /\ lapsed(CERT_BACK_ONLY, s_call.at)
    /\ s_call.result = Err("InsufficientCapabilities")

\* C40: send_secure_message to a peer id without an entry in the registry
\* returns ProtocolError(InvalidPayload), whatever the payload kind, writes
\* nothing and leaves the registry as it was.
C40_NoEntryIsInvalidPayload ==
    [][\A peer_id \in Uuids \ DOMAIN s_connections, kind \in PayloadKinds :
          send_secure_message(peer_id, kind) =>
              /\ s_call'.result = Err("ProtocolError(InvalidPayload)")
              /\ s_connections' = s_connections
              /\ s_wire' = s_wire]_vars

\* a Heartbeat, which needs no capability, was sent to an id that is not among
\* the entries of a registry that holds others, and came back
\* ProtocolError(InvalidPayload)
C40_Witness ==
    /\ s_call.op = "send_secure_message" /\ s_call.kind = "Heartbeat"
    /\ s_call.peer_id \notin DOMAIN s_connections
    /\ DOMAIN s_connections # {}
    /\ s_call.result = Err("ProtocolError(InvalidPayload)")

====
